---- MODULE Spec2Model ----
(***************************************************************************)
(* FlowGuard: the Validation Gate (services/validation_service.py), the    *)
(* upload handler that guards the plan store (routers/schema_routes.py)    *)
(* the concurrent test executor with its classifier                        *)
(* (services/test_executor.py) and the score calculator                    *)
(* (services/stability_score.py).                                          *)
(*                                                                         *)
(* Python values are modelled by tagged values of one shape:               *)
(*   - a dictionary key that is absent has the value MISSING;              *)
(*   - a value that is not a string (an int such as 5) is NONSTR;          *)
(*   - a list-valued field is [kind, items], kind "missing" (key absent),  *)
(*     "null" (None) or "list"; a list entry is [kind, ...], kind "dict"   *)
(*     or "int" (not a dictionary);                                        *)
(*   - an error message is [kind, idx, val]: the message template, the     *)
(*     0-based list index it interpolates (NoIdx if none) and the value    *)
(*     it interpolates ("" if none);                                       *)
(*   - a text that the code searches with `in` (a failure reason, a        *)
(*     response body) is the sequence of its words.                        *)
(***************************************************************************)
EXTENDS Integers, Sequences, FiniteSets, Bags, TLC

VARIABLES
    plan_object,    \* the dict handed to validate_agent1_output, which it mutates in place
    raw_plan,       \* that dict as the Planner produced it
    vresult,        \* what the latest validate_agent1_output call produced
    vfirst,         \* what the first call on this object produced
    vcalls,         \* number of validate_agent1_output calls made on plan_object
    store,          \* the APISchema rows of the database
    upload,         \* what the latest upload_schema request did
    reading,        \* the bag of upload_schema requests that wait for the read of
                    \* their file
    run_cases,      \* the test_cases list handed to the executor
    max_concurrent, \* TestExecutor.max_concurrent
    session,        \* TestExecutor.session: "none", "open" or "closed"
    run_pc,         \* where the run is: "created", "running", "gathered", "returned",
                    \* or "raising", "raised" when an exception leaves the run
    task_pc,        \* per task: "pending" (waits for the semaphore), "inflight", "done",
                    \* or "cancelled" when the run was cancelled before it finished
    task_result,    \* per task: what the task returned or raised
    completed,      \* the indexes of the finished tasks, in completion order
    final_results,  \* the list _execute_concurrently returns
    attempts,       \* per task: number of requests it has issued
    task_outcome,   \* per task: how its request ended
    classified,     \* one call of _analyze_response: its arguments and what it returned
    tally,          \* calculate_stability_score: its counters after the results read
                    \* so far and the score it returns for them
    call,           \* one call of a helper of the executor or of the report: its
                    \* arguments and what it returned
    test_run,       \* the TestRun row of the database
    test_failures,  \* the TestFailure rows of that run that are committed, in creation order
    analyzer_log,   \* per TestFailure row: how often Agent 2 was asked about it, what
                    \* risk level it answered, how often the row's analysis was written
    route,          \* the request answered last: its handler, its user, its answer
    in_flight       \* the request that waits for the executor in run_test_suite

validate_vars == <<plan_object, raw_plan, vresult, vfirst, vcalls>>
upload_vars == <<store, upload, reading>>
run_vars ==
    <<run_cases, max_concurrent, session, run_pc, task_pc, task_result, completed,
      final_results, attempts, task_outcome>>
classify_vars == <<classified>>
score_vars == <<tally>>
call_vars == <<call>>
flow_vars == <<test_run, test_failures, analyzer_log, route, in_flight>>
vars ==
    <<validate_vars, upload_vars, run_vars, classify_vars, score_vars, call_vars,
      flow_vars>>

MISSING == "<missing>"
NONSTR == "<int>"
NoIdx == 0 - 1

(***************************************************************************)
(* Bounds of the model.                                                    *)
(***************************************************************************)
\* total number of entries of normalized_schema and test_cases in a plan
MaxEntries == 2
\* number of times validate_agent1_output is called on one plan object
MaxCalls == 2
\* number of APISchema rows the store may hold
MaxPlans == 2
\* number of test cases of a run
MaxRunTests == 3
\* largest concurrency limit an executor is constructed with
MaxConcurrent == 2
\* number of requests a task may issue before the model stops following it
MaxAttempts == 2
\* number of test cases of the plan whose run is followed to its report
MaxFlowTests == 2
\* nesting depth of the dicts and lists of a JSON response body
MaxJsonDepth == 2
\* number of results in the list handed to calculate_stability_score
MaxResults == 25
\* number of upload requests that wait for their file at one time
MaxReading == 2

(***************************************************************************)
(* validation_service.py                                                   *)
(***************************************************************************)
HTTPMethod == {"GET", "POST", "PUT", "DELETE", "PATCH", "HEAD", "OPTIONS"}

valid_test_types ==
    {"missing_field", "wrong_type", "boundary_values", "malformed_json",
     "sql_injection", "xss", "rate_limit", "auth_bypass", "timeout",
     "invalid_auth"}

required_fields == <<"status", "normalized_schema", "test_cases", "errors">>

\* str.upper() on the method strings of the model
Upper(s) ==
    CASE s = "get" -> "GET"
      [] s = "post" -> "POST"
      [] s = "put" -> "PUT"
      [] s = "patch" -> "PATCH"
      [] s = "bogus" -> "BOGUS"
      [] OTHER -> s

Err(kind, idx, val) == [kind |-> kind, idx |-> idx, val |-> val]

\* Python truthiness of a list-valued field read with .get(field, [])
Truthy(l) ==
    CASE l.kind = "missing" -> FALSE
      [] l.kind = "null" -> FALSE
      [] OTHER -> Len(l.items) > 0

(* ---- rule 1 and the status checks (lines 120-134) ---- *)

HasField(plan, field) ==
    CASE field = "status" -> plan.status # MISSING
      [] field = "normalized_schema" -> plan.normalized_schema.kind # "missing"
      [] field = "test_cases" -> plan.test_cases.kind # "missing"
      [] OTHER -> plan.errors.kind # "missing"

RECURSIVE MissingFieldErrors(_, _)
MissingFieldErrors(plan, k) ==
    IF k > Len(required_fields) THEN <<>>
    ELSE (IF HasField(plan, required_fields[k]) THEN <<>>
          ELSE <<Err("MissingRequiredField", NoIdx, required_fields[k])>>)
         \o MissingFieldErrors(plan, k + 1)

\* no early return at all
IsRejectStatus_Never(status) == FALSE

\* line 127: the early return is taken for status "reject" only
IsRejectStatus(status) == status = "reject"

\* lines 133-134
StatusErrors(status) ==
    IF status # "ok" THEN <<Err("InvalidStatus", NoIdx, status)>> ELSE <<>>

(* ---- rule 3, the normalized_schema loop (lines 143-170) ---- *)

StartsWithSlash(path) == path \in {"/a", "/b", "/z"}

\* lines 149-156
EndpointPathErrors(endpoint, idx) ==
    IF endpoint.endpoint = MISSING THEN <<Err("EndpointMissingEndpoint", idx, "")>>
    ELSE IF endpoint.endpoint = NONSTR THEN <<Err("EndpointPathNotString", idx, "")>>
    ELSE IF ~StartsWithSlash(endpoint.endpoint)
         THEN <<Err("EndpointPathNoSlash", NoIdx, endpoint.endpoint)>>
    ELSE <<>>

\* the lookup made on the method as written
MethodInvalid_CaseSensitive(method) == method \notin HTTPMethod

\* lines 161-162 and 201-202: the method is upper-cased, then looked up
MethodInvalid(method) == Upper(method) \notin HTTPMethod

\* lines 168-169, evaluated on the entry after line 165 rewrote its method
NeedsRequestBody(endpoint) ==
    /\ endpoint.method \in {"POST", "PUT", "PATCH"}
    /\ endpoint.request_body = MISSING

RequestBodyErrors(endpoint) ==
    IF NeedsRequestBody(endpoint)
    THEN <<Err("EndpointMissingRequestBody", NoIdx, endpoint.endpoint)>>
    ELSE <<>>

\* one iteration of the loop at line 143; acc = [errors, items, raised]
EndpointStep(acc, i) ==
    LET endpoint == acc.items[i]
        idx == i - 1
    IN  IF acc.raised THEN acc
        ELSE IF endpoint.kind # "dict"
        THEN [acc EXCEPT !.errors = Append(@, Err("EndpointNotDict", idx, ""))]
        ELSE LET e1 == acc.errors \o EndpointPathErrors(endpoint, idx)
             IN  IF endpoint.method = MISSING
                 THEN [acc EXCEPT !.errors =
                          Append(e1, Err("EndpointMissingMethod", idx, ""))]
                 ELSE IF endpoint.method = NONSTR
                 \* line 161: AttributeError, 5 has no attribute upper
                 THEN [acc EXCEPT !.raised = TRUE]
                 ELSE LET method == Upper(endpoint.method)
                          e2 == IF MethodInvalid(endpoint.method)
                                THEN Append(e1, Err("EndpointInvalidMethod", idx, method))
                                ELSE e1
                          updated == [endpoint EXCEPT !.method = method]
                      IN  [acc EXCEPT !.errors = e2 \o RequestBodyErrors(updated),
                                      !.items[i] = updated]

RECURSIVE LoopEndpoints(_, _)
LoopEndpoints(acc, i) ==
    IF i > Len(acc.items) THEN acc
    ELSE LoopEndpoints(EndpointStep(acc, i), i + 1)

\* lines 137-170
ValidateSchema(acc0, normalized_schema) ==
    IF normalized_schema.kind # "list"
    THEN [acc0 EXCEPT !.errors = Append(@, Err("SchemaNotList", NoIdx, ""))]
    ELSE IF Len(normalized_schema.items) = 0
    THEN [acc0 EXCEPT !.errors = Append(@, Err("SchemaEmpty", NoIdx, ""))]
    ELSE LoopEndpoints([acc0 EXCEPT !.items = normalized_schema.items], 1)

(* ---- rule 4, the test_cases loop (lines 179-204) ---- *)

required_test_fields == <<"endpoint", "method", "test_type", "expected_failure">>

TestField(test, field) ==
    CASE field = "endpoint" -> test.endpoint
      [] field = "method" -> test.method
      [] field = "test_type" -> test.test_type
      [] OTHER -> test.expected_failure

RECURSIVE MissingTestFieldErrors(_, _, _)
MissingTestFieldErrors(test, idx, k) ==
    IF k > Len(required_test_fields) THEN <<>>
    ELSE (IF TestField(test, required_test_fields[k]) = MISSING
          THEN <<Err("TestMissingField", idx, required_test_fields[k])>>
          ELSE <<>>)
         \o MissingTestFieldErrors(test, idx, k + 1)

\* lines 190-197
TestTypeErrors(test, idx) ==
    IF test.test_type # MISSING /\ test.test_type \notin valid_test_types
    THEN <<Err("TestInvalidType", idx, test.test_type)>>
    ELSE <<>>

\* one iteration of the loop at line 179
TestStep(acc, i) ==
    LET test == acc.items[i]
        idx == i - 1
    IN  IF acc.raised THEN acc
        ELSE IF test.kind # "dict"
        THEN [acc EXCEPT !.errors = Append(@, Err("TestNotDict", idx, ""))]
        ELSE LET e1 == acc.errors \o MissingTestFieldErrors(test, idx, 1)
                              \o TestTypeErrors(test, idx)
             IN  IF test.method = MISSING
                 THEN [acc EXCEPT !.errors = e1]
                 ELSE IF test.method = NONSTR
                 \* line 201: AttributeError
                 THEN [acc EXCEPT !.raised = TRUE]
                 ELSE LET method == Upper(test.method)
                      IN  [acc EXCEPT
                             !.errors = IF MethodInvalid(test.method)
                                        THEN Append(e1, Err("TestInvalidMethod", idx, method))
                                        ELSE e1,
                             !.items[i] = [test EXCEPT !.method = method]]

RECURSIVE LoopTests(_, _)
LoopTests(acc, i) ==
    IF i > Len(acc.items) THEN acc
    ELSE LoopTests(TestStep(acc, i), i + 1)

\* lines 173-204
ValidateTests(acc0, test_cases) ==
    IF acc0.raised THEN acc0
    ELSE IF test_cases.kind # "list"
    THEN [acc0 EXCEPT !.errors = Append(@, Err("TestsNotList", NoIdx, ""))]
    ELSE IF Len(test_cases.items) = 0
    THEN [acc0 EXCEPT !.errors = Append(@, Err("TestsEmpty", NoIdx, ""))]
    ELSE LoopTests([acc0 EXCEPT !.items = test_cases.items], 1)

(* ---- rule 5, the cross-reference (lines 207-218) ---- *)

\* lines 209-212
SchemaEndpoints(items) ==
    {items[i].endpoint : i \in {j \in 1..Len(items) : items[j].endpoint # MISSING}}

\* line 217: the test's endpoint is checked only when it is truthy
Hallucinated(test_endpoint, schema_endpoints) ==
    /\ test_endpoint # MISSING
    /\ test_endpoint # ""
    /\ test_endpoint \notin schema_endpoints

RECURSIVE HallucinationErrors(_, _, _)
HallucinationErrors(tests, schema_endpoints, i) ==
    IF i > Len(tests) THEN <<>>
    ELSE (IF Hallucinated(tests[i].endpoint, schema_endpoints)
          THEN <<Err("NonExistentEndpoint", i - 1, tests[i].endpoint)>>
          ELSE <<>>)
         \o HallucinationErrors(tests, schema_endpoints, i + 1)

\* 'endpoint' in 5 raises TypeError (line 211), (5).get raises AttributeError
\* (line 216)
CrossReferenceRaises(normalized_schema, test_cases) ==
    \/ \E i \in 1..Len(normalized_schema.items) : normalized_schema.items[i].kind # "dict"
    \/ \E i \in 1..Len(test_cases.items) : test_cases.items[i].kind # "dict"

\* lines 207-218; acc = [errors, items, raised]
CrossReference(acc, normalized_schema, test_cases) ==
    IF acc.raised \/ ~(Truthy(normalized_schema) /\ Truthy(test_cases)) THEN acc
    ELSE IF CrossReferenceRaises(normalized_schema, test_cases)
    THEN [acc EXCEPT !.raised = TRUE]
    ELSE [acc EXCEPT !.errors =
             @ \o HallucinationErrors(test_cases.items,
                                      SchemaEndpoints(normalized_schema.items), 1)]

\* lines 221-223
ErrorsFieldErrors(errors_field) ==
    IF errors_field.kind \notin {"missing", "list"}
    THEN <<Err("ErrorsNotList", NoIdx, "")>>
    ELSE <<>>

\* the list object after its loop rewrote the methods of its entries
Rewritten(l, acc) ==
    IF l.kind = "list" /\ Len(l.items) > 0 THEN [l EXCEPT !.items = acc.items] ELSE l

\* lines 111-225.  The value is [outcome, errors, plan]: outcome "accepted" for
\* (True, []), "rejected" for (False, errors), "raised" when an exception leaves
\* the function; plan is agent_output as the call left it.
validate_agent1_output(agent_output, base_url) ==
    LET e0 == MissingFieldErrors(agent_output, 1)
    IN  IF IsRejectStatus(agent_output.status)
        THEN [outcome |-> "rejected",
              errors |-> IF e0 = <<>> THEN <<Err("RejectedByAI", NoIdx, "")>> ELSE e0,
              plan |-> agent_output]
        ELSE
        LET e1 == e0 \o StatusErrors(agent_output.status)
            a1 == ValidateSchema([errors |-> e1, items |-> <<>>, raised |-> FALSE],
                                 agent_output.normalized_schema)
            ns == Rewritten(agent_output.normalized_schema, a1)
            a2 == ValidateTests([a1 EXCEPT !.items = <<>>], agent_output.test_cases)
            tc == IF a1.raised THEN agent_output.test_cases
                  ELSE Rewritten(agent_output.test_cases, a2)
            a3 == CrossReference(a2, ns, tc)
            e5 == a3.errors \o ErrorsFieldErrors(agent_output.errors)
            plan == [agent_output EXCEPT !.normalized_schema = ns, !.test_cases = tc]
        IN  IF a3.raised
            THEN [outcome |-> "raised", errors |-> <<>>, plan |-> plan]
            ELSE [outcome |-> IF Len(e5) = 0 THEN "accepted" ELSE "rejected",
                  errors |-> e5, plan |-> plan]

(* ---- lines 227-237: validate_base_url.  A URL is a sequence of characters. ---- *)

HostChars == {"a", "b", "1", "8", ".", "-"}
Digits == {"1", "8"}

StartsWith(s, prefix) ==
    /\ Len(s) >= Len(prefix)
    /\ SubSeq(s, 1, Len(prefix)) = prefix

RECURSIVE rstrip(_, _)
rstrip(s, ch) ==
    IF Len(s) > 0 /\ s[Len(s)] = ch THEN rstrip(SubSeq(s, 1, Len(s) - 1), ch) ELSE s

\* the length of the longest prefix of s made of characters of class
RECURSIVE Span(_, _)
Span(s, class) ==
    IF Len(s) > 0 /\ s[1] \in class THEN 1 + Span(Tail(s), class) ELSE 0

Drop(s, n) == SubSeq(s, n + 1, Len(s))

\* (?:/.*)?$ : nothing, or a slash followed by anything on one line
MatchPath(s) == Len(s) = 0 \/ (s[1] = "/" /\ \A i \in 1..Len(s) : s[i] # "\n")

\* (?::\d+)?(?:/.*)?$
MatchPortPath(s) ==
    \/ MatchPath(s)
    \/ /\ Len(s) > 0
       /\ s[1] = ":"
       /\ \E n \in 1..Span(Tail(s), Digits) : MatchPath(Drop(Tail(s), n))

\* [a-zA-Z0-9.-]+ followed by the rest of the pattern
MatchHost(s) == \E n \in 1..Span(s, HostChars) : MatchPortPath(Drop(s, n))

\* ^https?://
MatchPattern(s) ==
    \/ StartsWith(s, <<"h", "t", "t", "p", ":", "/", "/">>) /\ MatchHost(Drop(s, 7))
    \/ StartsWith(s, <<"h", "t", "t", "p", "s", ":", "/", "/">>) /\ MatchHost(Drop(s, 8))

validate_base_url(base_url) ==
    IF Len(base_url) = 0 THEN FALSE ELSE MatchPattern(rstrip(base_url, "/"))

(***************************************************************************)
(* The inputs of the model: what an untrusted Planner may hand the gate.   *)
(***************************************************************************)
SeqsUpTo(S, n) == UNION {[1..k -> S] : k \in 0..n}

ValidEndpoint ==
    [kind |-> "dict", endpoint |-> "/a", method |-> "GET", request_body |-> MISSING]

\* a well-formed entry, entries with one field absent or malformed, and a non-dict
EndpointEntries ==
    {ValidEndpoint, [ValidEndpoint EXCEPT !.kind = "int"]}
    \cup {[ValidEndpoint EXCEPT !.endpoint = v] : v \in {MISSING, NONSTR, "b"}}
    \cup {[ValidEndpoint EXCEPT !.method = v] : v \in {MISSING, NONSTR, "bogus", "post"}}
    \cup {[ValidEndpoint EXCEPT !.method = "post", !.request_body = "{}"]}

ValidTest ==
    [kind |-> "dict", endpoint |-> "/a", method |-> "get", test_type |-> "xss",
     expected_failure |-> "true"]

EmptyTest ==
    [kind |-> "dict", endpoint |-> MISSING, method |-> MISSING, test_type |-> MISSING,
     expected_failure |-> MISSING]

TestEntries ==
    {ValidTest, EmptyTest, [ValidTest EXCEPT !.kind = "int"]}
    \cup {[ValidTest EXCEPT !.endpoint = v] : v \in {"", "/z"}}
    \cup {[ValidTest EXCEPT !.method = v] : v \in {NONSTR, "bogus"}}
    \cup {[ValidTest EXCEPT !.test_type = v] : v \in {MISSING, "bad_type"}}
    \cup {[ValidTest EXCEPT !.expected_failure = MISSING]}
    \cup {[ValidTest EXCEPT !.endpoint = "/z", !.test_type = "bad_type"]}

NotAList == {[kind |-> k, items |-> <<>>] : k \in {"missing", "null"}}

ListsOf(S, n) == NotAList \cup {[kind |-> "list", items |-> l] : l \in SeqsUpTo(S, n)}

Statuses == {MISSING, "ok", "reject", "pending"}

ErrorsFields ==
    {[kind |-> "missing", items |-> <<>>], [kind |-> "null", items |-> <<>>],
     [kind |-> "list", items |-> <<>>], [kind |-> "list", items |-> <<"declared">>]}

RawPlans ==
    {p \in [status : Statuses,
            normalized_schema : ListsOf(EndpointEntries, MaxEntries),
            test_cases : ListsOf(TestEntries, MaxEntries),
            errors : ErrorsFields] :
        Len(p.normalized_schema.items) + Len(p.test_cases.items) <= MaxEntries}

BaseUrls ==
    {<<"h", "t", "t", "p", "s", ":", "/", "/", "a", ".", "b", ":", "8", "/">>,
     <<"h", "t", "t", "p", ":", "/", "/">>,
     <<"f", "t", "p", ":", "/", "/", "a">>,
     <<>>}

(***************************************************************************)
(* SpecValidate: the gate as a function of an arbitrary raw plan, called   *)
(* up to MaxCalls times on the same dict.                                  *)
(***************************************************************************)
NoResult == [outcome |-> "none", errors |-> <<>>]

NoUpload ==
    [status |-> "none", user_id |-> "", schema_hash |-> <<>>, agent1_status |-> "",
     validation |-> "none", schema_id |-> NoIdx]

UploadIdle == store = {} /\ upload = NoUpload /\ reading = EmptyBag

NoReason == <<"<None>">>

NoCase == [endpoint |-> "", method |-> "", test_type |-> "", expected_failure |-> FALSE]

NoTaskResult ==
    [test_case |-> NoCase, status_code |-> NoIdx, result |-> "none",
     failure_reason |-> NoReason]

RunIdle ==
    /\ run_cases = <<>>
    /\ max_concurrent = 1
    /\ session = "none"
    /\ run_pc = "idle"
    /\ task_pc = <<>>
    /\ task_result = <<>>
    /\ completed = <<>>
    /\ final_results = <<>>
    /\ attempts = <<>>
    /\ task_outcome = <<>>

NoClassification ==
    [status_code |-> 0, response_body |-> <<>>, test_case |-> NoCase, result |-> "none",
     failure_reason |-> NoReason]

ClassifyIdle == classified = NoClassification

\* lines 13 and 23-25: the counters and the score of an empty list of results;
\* penalty_by_precedence is the penalty of the results read so far when each
\* counts for the first only of the conditions it matches, engine_results says
\* whether all of them are results the executor can return
NoTally ==
    [n |-> 0, num_5xx_errors |-> 0, num_invalid_success |-> 0, num_timeouts |-> 0,
     score |-> 100, penalty_by_precedence |-> 0, engine_results |-> TRUE]

ScoreIdle == tally = NoTally

NoCall == [fn |-> "none", args |-> <<>>, ret |-> <<>>]

CallIdle == call = NoCall

\* Python's None where a text is expected
NoText == "<None>"

NoRun ==
    [status |-> "none", total_tests |-> 0, passed_tests |-> NoIdx, failed_tests |-> NoIdx,
     error_tests |-> NoIdx, stability_score |-> NoIdx, agent2_called |-> FALSE,
     user_id |-> "", schema_id |-> NoIdx]

NoRoute == [name |-> "none", user_id |-> "", response |-> [kind |-> "none"]]

NoFlight == [name |-> "none", user_id |-> "", overlapped |-> FALSE]

FlowIdle ==
    /\ test_run = NoRun
    /\ test_failures = <<>>
    /\ analyzer_log = <<>>
    /\ route = NoRoute
    /\ in_flight = NoFlight

InitValidate ==
    /\ UploadIdle
    /\ CallIdle
    /\ FlowIdle
    /\ RunIdle
    /\ ClassifyIdle
    /\ ScoreIdle
    /\ raw_plan \in RawPlans
    /\ plan_object = raw_plan
    /\ vresult = NoResult
    /\ vfirst = NoResult
    /\ vcalls = 0

Validate ==
    /\ vcalls < MaxCalls
    /\ \E base_url \in BaseUrls :
          LET r == validate_agent1_output(plan_object, base_url)
              res == [outcome |-> r.outcome, errors |-> r.errors]
          IN  /\ vresult' = res
              /\ vfirst' = IF vcalls = 0 THEN res ELSE vfirst
              /\ plan_object' = r.plan
    /\ vcalls' = vcalls + 1
    /\ UNCHANGED <<raw_plan, upload_vars, run_vars, classify_vars, score_vars, call_vars, flow_vars>>

NextValidate == Validate

SpecValidate == InitValidate /\ [][NextValidate]_vars

(***************************************************************************)
(* Properties of the gate (SpecValidate).  They are stated on raw_plan,    *)
(* the plan as the Planner produced it, and on vresult, what the gate      *)
(* answered; none of them uses the operators that model the gate.          *)
(***************************************************************************)
Validated == vcalls > 0

Items(l) == IF l.kind = "list" THEN l.items ELSE <<>>

ErrorKinds(errors) == {errors[k].kind : k \in 1..Len(errors)}

EndpointErrorKinds ==
    {"SchemaNotList", "SchemaEmpty", "EndpointNotDict", "EndpointMissingEndpoint",
     "EndpointPathNotString", "EndpointPathNoSlash", "EndpointMissingMethod",
     "EndpointInvalidMethod", "EndpointMissingRequestBody"}

TestErrorKinds ==
    {"TestsNotList", "TestsEmpty", "TestNotDict", "TestMissingField",
     "TestInvalidType", "TestInvalidMethod"}

CrossErrorKinds == {"NonExistentEndpoint"}

\* the paths of the entries of a plan's normalized_schema
PathsOf(plan) ==
    LET es == Items(plan.normalized_schema)
    IN  {es[i].endpoint :
            i \in {j \in 1..Len(es) : es[j].kind = "dict" /\ es[j].endpoint # MISSING}}

\* the endpoints test cases refer to that are the path of no schema entry
HallucinatedEndpoints(plan) ==
    LET ts == Items(plan.test_cases)
    IN  {ts[i].endpoint :
            i \in {j \in 1..Len(ts) : /\ ts[j].kind = "dict"
                                      /\ ts[j].endpoint # MISSING
                                      /\ ts[j].endpoint \notin PathsOf(plan)}}

Names(errors, endpoint) ==
    \E k \in 1..Len(errors) :
        errors[k].kind = "NonExistentEndpoint" /\ errors[k].val = endpoint

PostLike == {"post", "POST", "put", "PUT", "patch", "PATCH"}
AnyCaseMethods == HTTPMethod \cup {"get", "post", "put", "patch"}

\* an entry of normalized_schema that breaks rule 3
BadEndpoint(e) ==
    \/ e.kind # "dict"
    \/ e.endpoint \in {MISSING, NONSTR, "b"}
    \/ e.method \notin AnyCaseMethods
    \/ e.method \in PostLike /\ e.request_body = MISSING

\* a test case that breaks rule 4
BadTest(t) ==
    \/ t.kind # "dict"
    \/ MISSING \in {t.endpoint, t.method, t.test_type, t.expected_failure}
    \/ t.test_type \notin valid_test_types

EndpointRuleViolated(plan) ==
    LET es == Items(plan.normalized_schema)
    IN  Len(es) = 0 \/ \E i \in 1..Len(es) : BadEndpoint(es[i])

TestRuleViolated(plan) ==
    LET ts == Items(plan.test_cases)
    IN  Len(ts) = 0 \/ \E i \in 1..Len(ts) : BadTest(ts[i])

\* C2: a plan with a test case whose endpoint is the path of no
\* normalized_schema entry is rejected, and the error list names that endpoint.
\* Stated for the plans that break no other rule, where the cross-reference
\* alone decides.
C2_HallucinatedEndpointRejectedAndNamed ==
    (/\ Validated
     /\ raw_plan.status = "ok"
     /\ raw_plan.errors.kind = "list"
     /\ ~EndpointRuleViolated(raw_plan)
     /\ ~TestRuleViolated(raw_plan)) =>
        \A ep \in HallucinatedEndpoints(raw_plan) :
            vresult.outcome = "rejected" /\ Names(vresult.errors, ep)

\* C3: every later call of validate on the same plan object, which the first
\* call normalised in place, gives the decision and the error list, in the same
\* order, that the first call gave.
C3_RepeatedCallSameResult == vcalls > 1 => vresult = vfirst

\* C3 witness: a second call on a plan the first call rewrote and rejected
C3_Witness ==
    /\ vcalls > 1
    /\ plan_object # raw_plan
    /\ vresult.outcome = "rejected"
    /\ "EndpointMissingRequestBody" \in ErrorKinds(vresult.errors)

DeclaredErrors(plan) ==
    LET declared == Items(plan.errors)
    IN  IF Len(declared) > 0
        THEN [k \in 1..Len(declared) |-> Err("Declared", NoIdx, declared[k])]
        ELSE <<Err("RejectedByAI", NoIdx, "")>>

\* C4 as stated: for every status other than "ok" the result is Rejected with
\* the plan's declared errors, or the one default message when it declares
\* none, and no other check contributes an error.
C4_NonOkRejectsWithDeclaredErrors ==
    (Validated /\ raw_plan.status # "ok") =>
        /\ vresult.outcome = "rejected"
        /\ vresult.errors = DeclaredErrors(raw_plan)

\* C4 amended: for status "reject" the result is Rejected at once, carrying the
\* missing-required-field errors or else the single default message, with no
\* endpoint, test-case or cross-reference check evaluated (no error of theirs,
\* no exception, no method rewritten); for any other status than "ok" the plan
\* is never accepted, and a returned error list starts, after the
\* missing-field errors, with the invalid-status error while the other checks
\* still run.
C4_RejectStatusReturnsEarly ==
    Validated =>
        /\ raw_plan.status = "reject" =>
              /\ vresult.outcome = "rejected"
              /\ plan_object = raw_plan
              /\ \/ vresult.errors = <<Err("RejectedByAI", NoIdx, "")>>
                 \/ /\ Len(vresult.errors) > 0
                    /\ ErrorKinds(vresult.errors) = {"MissingRequiredField"}
              /\ (vresult.errors = <<Err("RejectedByAI", NoIdx, "")>>)
                    <=> (/\ raw_plan.normalized_schema.kind # "missing"
                         /\ raw_plan.test_cases.kind # "missing"
                         /\ raw_plan.errors.kind # "missing")
        /\ raw_plan.status \notin {"ok", "reject"} =>
              /\ vresult.outcome # "accepted"
              /\ vresult.outcome = "rejected" =>
                    /\ "InvalidStatus" \in ErrorKinds(vresult.errors)
                    /\ "RejectedByAI" \notin ErrorKinds(vresult.errors)

\* C4 witnesses: a rejected plan with broken entries answered by the default
\* message alone, and a plan of another status whose entries were still checked
C4_Witness ==
    /\ Validated
    /\ raw_plan.status = "reject"
    /\ Len(Items(raw_plan.normalized_schema)) > 0
    /\ Items(raw_plan.normalized_schema)[1].method = NONSTR
    /\ Len(Items(raw_plan.errors)) > 0
    /\ vresult.errors = <<Err("RejectedByAI", NoIdx, "")>>

\* C6: validate always returns a decision, Accepted or Rejected with a
\* non-empty error list; no raw plan makes it raise.
C6_ValidateIsTotal ==
    Validated =>
        \/ vresult.outcome = "accepted"
        \/ vresult.outcome = "rejected" /\ Len(vresult.errors) > 0

KindsIn(errors, kinds) == {k \in 1..Len(errors) : errors[k].kind \in kinds}

\* C7: a plan with status ok and a non-empty normalized_schema that breaks an
\* endpoint rule, a test-case rule and the cross-reference rule is rejected with
\* an error for each, the endpoint errors before the test-case errors before
\* the cross-reference errors.
C7_AllRulesReportedInOrder ==
    (/\ Validated
     /\ raw_plan.status = "ok"
     /\ Len(Items(raw_plan.normalized_schema)) > 0
     /\ EndpointRuleViolated(raw_plan)
     /\ TestRuleViolated(raw_plan)
     /\ HallucinatedEndpoints(raw_plan) # {}) =>
        /\ vresult.outcome = "rejected"
        /\ KindsIn(vresult.errors, EndpointErrorKinds) # {}
        /\ KindsIn(vresult.errors, TestErrorKinds) # {}
        /\ \A ep \in HallucinatedEndpoints(raw_plan) : Names(vresult.errors, ep)
        /\ \A i \in KindsIn(vresult.errors, EndpointErrorKinds) :
              \A j \in KindsIn(vresult.errors, TestErrorKinds) :
                 \A k \in KindsIn(vresult.errors, CrossErrorKinds) : i < j /\ j < k

\* C8: a plan with an endpoint whose method is POST, PUT or PATCH in any case
\* and that has no request_body is rejected; an endpoint whose request_body is
\* present but empty draws no request_body error.
C8_RequestBodyRequired ==
    Validated =>
        LET es == Items(raw_plan.normalized_schema)
            lacking == {i \in 1..Len(es) : /\ es[i].kind = "dict"
                                           /\ es[i].method \in PostLike
                                           /\ es[i].request_body = MISSING}
        IN  /\ lacking # {} => vresult.outcome = "rejected"
            /\ lacking = {} =>
                  "EndpointMissingRequestBody" \notin ErrorKinds(vresult.errors)

\* C9: a plan whose test_cases is not a non-empty list of objects, or with a
\* test case that lacks endpoint, method, test_type or expected_failure or has
\* a test_type outside the enum, is rejected.  Stated for the plans with status
\* ok whose normalized_schema breaks no rule.
C9_TestCaseRulesReject ==
    (/\ Validated
     /\ raw_plan.status = "ok"
     /\ ~EndpointRuleViolated(raw_plan)
     /\ TestRuleViolated(raw_plan)) => vresult.outcome = "rejected"

(***************************************************************************)
(* Spec: the upload handler and the plan store (routers/schema_routes.py). *)
(* After the awaited read of the file the handler runs without another     *)
(* await, so one request is one step.                                      *)
(***************************************************************************)
Users == {"u1", "u2"}

\* the uploaded file: a schema that parses to a non-empty dict, or text that
\* does not parse
Files == {"schema1", "unparsable"}

\* validate_schema_file_content, lines 26-53
ParsesToSchema(file) == file # "unparsable"

\* line 104: not base_url or not base_url.strip()
IsBlank(base_url) == \A i \in 1..Len(base_url) : base_url[i] = " "

\* line 117
HasHttpPrefix(base_url) ==
    \/ StartsWith(base_url, <<"h", "t", "t", "p", ":", "/", "/">>)
    \/ StartsWith(base_url, <<"h", "t", "t", "p", "s", ":", "/", "/">>)

\* validation_service.py lines 239-248: SHA-256 of the key-sorted JSON text of
\* the schema followed by the base URL, collisions not modelled
calculate_schema_hash(schema_content, base_url) == <<schema_content, base_url>>

\* the lookup finds nothing
ExistingSchema_Never(schema_hash, user_id) == {}

\* the lookup leaves the user out
ExistingSchema_AnyOwner(schema_hash, user_id) ==
    {row \in store : row.schema_hash = schema_hash}

\* lines 151-154
ExistingSchema(schema_hash, user_id) ==
    {row \in store : row.schema_hash = schema_hash /\ row.user_id = user_id}

\* what Agent1Output(**result).dict() can be: status ok or reject, each list
\* None or a list of dictionaries, every key present
PlannerEndpoints ==
    {ValidEndpoint} \cup {[ValidEndpoint EXCEPT !.method = v] : v \in {NONSTR, "post"}}

PlannerTests ==
    {ValidTest} \cup {[ValidTest EXCEPT !.endpoint = v] : v \in {"", "/z"}}

PlannerLists(S) ==
    {[kind |-> "null", items |-> <<>>]} \cup {[kind |-> "list", items |-> <<e>>] : e \in S}

PlannerOutputs ==
    [status : {"ok", "reject"},
     normalized_schema : PlannerLists(PlannerEndpoints),
     test_cases : PlannerLists(PlannerTests),
     errors : {[kind |-> "null", items |-> <<>>], [kind |-> "list", items |-> <<>>]}]

\* the gate's verdict ignored
ShouldReject_StatusOnly(agent1_status, outcome) == agent1_status = "reject"

\* line 188
ShouldReject(agent1_status, outcome) == agent1_status = "reject" \/ outcome # "accepted"

Answer(status, user_id, schema_hash, agent1_status, validation) ==
    [status |-> status, user_id |-> user_id, schema_hash |-> schema_hash,
     agent1_status |-> agent1_status, validation |-> validation, schema_id |-> NoIdx]

\* lines 205-216
new_schema(user_id, base_url, schema_hash, agent1_result) ==
    [schema_id |-> Cardinality(store) + 1,
     user_id |-> user_id,
     base_url |-> base_url,
     schema_hash |-> schema_hash,
     normalized_schema |-> agent1_result.normalized_schema.items,
     test_cases |-> agent1_result.test_cases.items]

\* lines 168-240, from the call of Agent 1 on
ProcessUpload(user_id, base_url, schema_hash, agent1_result) ==
    LET v == validate_agent1_output(agent1_result, base_url)
    IN  IF v.outcome = "raised"
        \* line 234: any other exception becomes a 500, nothing is saved
        THEN /\ upload' = Answer("500", user_id, schema_hash, agent1_result.status, v.outcome)
             /\ UNCHANGED store
        ELSE IF ShouldReject(agent1_result.status, v.outcome)
        THEN /\ upload' = Answer("rejected", user_id, schema_hash,
                                 agent1_result.status, v.outcome)
             /\ UNCHANGED store
        ELSE /\ Cardinality(store) < MaxPlans
             /\ store' = store \cup
                   {new_schema(user_id, base_url, schema_hash, agent1_result)}
             /\ upload' = [Answer("processed", user_id, schema_hash,
                                  agent1_result.status, v.outcome)
                              EXCEPT !.schema_id = Cardinality(store) + 1]

\* lines 85-240
upload_schema(user_id, base_url, file) ==
    IF Len(base_url) = 0 \/ IsBlank(base_url) \/ ~HasHttpPrefix(base_url)
       \/ ~ParsesToSchema(file)
    THEN /\ upload' = Answer("400", user_id, <<>>, "", "none")
         /\ UNCHANGED store
    ELSE LET schema_hash == calculate_schema_hash(file, base_url)
         IN  IF ExistingSchema(schema_hash, user_id) # {}
             \* lines 156-166: the answer names the row found, Agent 1 is not called
             THEN /\ \E existing_schema \in ExistingSchema(schema_hash, user_id) :
                        upload' = [Answer("cached", user_id, schema_hash, "", "none")
                                      EXCEPT !.schema_id = existing_schema.schema_id]
                  /\ UNCHANGED store
             ELSE \E agent1_result \in PlannerOutputs :
                     ProcessUpload(user_id, base_url, schema_hash, agent1_result)

ValidateIdle ==
    /\ raw_plan = [status |-> MISSING,
                   normalized_schema |-> [kind |-> "missing", items |-> <<>>],
                   test_cases |-> [kind |-> "missing", items |-> <<>>],
                   errors |-> [kind |-> "missing", items |-> <<>>]]
    /\ plan_object = raw_plan
    /\ vresult = NoResult
    /\ vfirst = NoResult
    /\ vcalls = 0

Init ==
    ValidateIdle /\ UploadIdle /\ RunIdle /\ ClassifyIdle /\ ScoreIdle /\ CallIdle /\ FlowIdle

Upload ==
    /\ \E user_id \in Users, base_url \in BaseUrls, file \in Files :
          upload_schema(user_id, base_url, file)
    /\ UNCHANGED reading
    /\ UNCHANGED <<validate_vars, run_vars, classify_vars, score_vars, call_vars, flow_vars>>

Next == Upload

Spec == Init /\ [][Next]_vars

(***************************************************************************)
(* Properties of the upload handler (Spec).                                *)
(***************************************************************************)
\* C1: an upload whose Planner output has status reject or fails validation
\* adds no plan: the store is what it was before the upload, and a lookup by
\* that upload's hash for that owner finds nothing.
C1_RejectedPlanNeverStored ==
    [][(upload'.agent1_status = "reject" \/ upload'.validation \in {"rejected", "raised"})
          => /\ store' = store
             /\ \A row \in store' : ~(/\ row.schema_hash = upload'.schema_hash
                                      /\ row.user_id = upload'.user_id)]_vars

\* C1 witness: an upload was turned down because validation failed although
\* the Planner said ok, while the store already held a plan
C1_Witness ==
    /\ upload.status = "rejected"
    /\ upload.agent1_status = "ok"
    /\ upload.validation = "rejected"
    /\ store # {}

\* C5: no stored plan has a base URL that fails the pattern
\* scheme://host[:port][/path]
C5_StoredBaseUrlMatchesPattern ==
    \A row \in store : validate_base_url(row.base_url)

\* C26: an upload whose hash is that of a row the same user already has is
\* answered "cached" with that row's schema_id, without a result of Agent 1
\* (it is not called) and without a change of the stored rows.
C26_CachedUploadReusesPlan ==
    [][\A row \in store :
          (row.user_id = upload'.user_id /\ row.schema_hash = upload'.schema_hash)
             => /\ upload'.status = "cached"
                /\ upload'.schema_id = row.schema_id
                /\ upload'.agent1_status = ""
                /\ store' = store]_vars

\* the second upload of a stored schema by its owner was answered from the cache
C26_Witness ==
    /\ upload.status = "cached"
    /\ upload.agent1_status = ""
    /\ \E row \in store :
          /\ row.user_id = upload.user_id
          /\ row.schema_hash = upload.schema_hash
          /\ row.schema_id = upload.schema_id


(***************************************************************************)
(* Texts searched with `in`: a text is the sequence of its words.          *)
(***************************************************************************)
\* str.lower() on the words of the model
Lower(w) ==
    CASE w = "Traceback" -> "traceback"
      [] w = "File" -> "file"
      [] w = "Exception:" -> "exception:"
      [] w = "System.Exception" -> "system.exception"
      [] w = "Internal" -> "internal"
      [] w = "Server" -> "server"
      [] w = "Error" -> "error"
      [] w = "Invalid" -> "invalid"
      [] w = "Request" -> "request"
      [] w = "Execution" -> "execution"
      [] w = "Timeout" -> "timeout"
      [] w = "Bad" -> "bad"
      [] w = "Password" -> "password"
      [] w = "HIGH" -> "high"
      [] w = "Content-Type" -> "content-type"
      [] w = "SERVER" -> "server"
      [] w = "Set-Cookie" -> "set-cookie"
      [] w = "Authorization" -> "authorization"
      [] w = "X-Powered-By" -> "x-powered-by"
      [] OTHER -> w

lower(text) == [k \in 1..Len(text) |-> Lower(text[k])]

\* needle in text
Contains(needle, text) ==
    \E k \in 1..(Len(text) - Len(needle) + 1) :
        SubSeq(text, k, k + Len(needle) - 1) = needle

(***************************************************************************)
(* The classifier (services/test_executor.py, lines 210-253).              *)
(***************************************************************************)
stack_trace_indicators ==
    {<<"Traceback">>, <<"at", "line">>, <<"File", "\"">>, <<"Exception:">>,
     <<"java.lang.">>, <<"System.Exception">>, <<"stack", "trace">>,
     <<"error", "occurred">>, <<"internal", "server", "error">>}

\* lines 244-253
_detects_stack_trace(response_body) ==
    \E indicator \in stack_trace_indicators :
        Contains(lower(indicator), lower(response_body))

\* the same rules with rule 4 (leak) tried before rule 3 (invalid success)
_analyze_response_LeakFirst(status_code, response_body, test_case) ==
    IF status_code >= 500
    THEN [result |-> "failed",
          failure_reason |-> <<"5xx", "Server", "Error", ToString(status_code)>>]
    ELSE IF _detects_stack_trace(response_body)
    THEN [result |-> "failed",
          failure_reason |-> <<"Stack", "trace", "or", "sensitive", "info", "leaked">>]
    ELSE IF test_case.expected_failure /\ status_code < 400
    THEN [result |-> "failed",
          failure_reason |-> <<"Invalid", "success", "-", "bad", "input", "was", "accepted">>]
    ELSE IF test_case.test_type = "sql_injection" /\ status_code < 400
    THEN [result |-> "failed",
          failure_reason |-> <<"SQL", "injection", "attempt", "succeeded">>]
    ELSE IF test_case.test_type = "xss" /\ status_code < 400
    THEN [result |-> "failed", failure_reason |-> <<"XSS", "attempt", "succeeded">>]
    ELSE [result |-> "passed", failure_reason |-> NoReason]

\* lines 210-242; the status code a 5xx reason interpolates is its last word
_analyze_response(status_code, response_body, test_case) ==
    IF status_code >= 500
    THEN [result |-> "failed",
          failure_reason |-> <<"5xx", "Server", "Error", ToString(status_code)>>]
    ELSE IF test_case.expected_failure /\ status_code < 400
    THEN [result |-> "failed",
          failure_reason |-> <<"Invalid", "success", "-", "bad", "input", "was", "accepted">>]
    ELSE IF _detects_stack_trace(response_body)
    THEN [result |-> "failed",
          failure_reason |-> <<"Stack", "trace", "or", "sensitive", "info", "leaked">>]
    ELSE IF test_case.test_type = "sql_injection" /\ status_code < 400
    THEN [result |-> "failed",
          failure_reason |-> <<"SQL", "injection", "attempt", "succeeded">>]
    ELSE IF test_case.test_type = "xss" /\ status_code < 400
    THEN [result |-> "failed", failure_reason |-> <<"XSS", "attempt", "succeeded">>]
    ELSE [result |-> "passed", failure_reason |-> NoReason]

(***************************************************************************)
(* SpecClassify: _analyze_response as a function of its arguments.         *)
(***************************************************************************)
StatusCodes == {200, 301, 399, 400, 404, 499, 500, 503}

Bodies ==
    {<<>>,
     <<"{", "id", ":", "1", "}">>,
     <<"Traceback", "(most", "recent", "call", "last)">>,
     <<"Internal", "Server", "Error">>,
     <<"stack", "overflow">>}

ClassifiedCases ==
    {[endpoint |-> "/users", method |-> "GET", test_type |-> t, expected_failure |-> e] :
        t \in valid_test_types, e \in BOOLEAN}

InitClassify ==
    /\ ValidateIdle
    /\ UploadIdle
    /\ CallIdle
    /\ FlowIdle
    /\ RunIdle
    /\ ScoreIdle
    /\ \E status_code \in StatusCodes, response_body \in Bodies, test_case \in ClassifiedCases :
          classified = [status_code |-> status_code, response_body |-> response_body,
                        test_case |-> test_case, result |-> "none",
                        failure_reason |-> NoReason]

\* lines 87-92: the classifier is called on a response
Classify ==
    /\ classified.result = "none"
    /\ LET a == _analyze_response(classified.status_code, classified.response_body,
                                  classified.test_case)
       IN  classified' = [classified EXCEPT !.result = a.result,
                                            !.failure_reason = a.failure_reason]
    /\ UNCHANGED <<validate_vars, upload_vars, run_vars, score_vars, call_vars, flow_vars>>

NextClassify == Classify

SpecClassify == InitClassify /\ [][NextClassify]_vars

(***************************************************************************)
(* Properties of the classifier (SpecClassify).                            *)
(***************************************************************************)
\* the rules of the classifier table in their order: when each applies to the
\* classified response and what it assigns
ClassifierRules ==
    LET status == classified.status_code
        case == classified.test_case
    IN  <<[applies |-> status >= 500, outcome |-> "failed",
           reason |-> <<"5xx", "Server", "Error">>],
          [applies |-> case.expected_failure /\ status < 400, outcome |-> "failed",
           reason |-> <<"Invalid", "success">>],
          [applies |-> \E indicator \in stack_trace_indicators :
                          Contains(lower(indicator), lower(classified.response_body)),
           outcome |-> "failed", reason |-> <<"Stack", "trace">>],
          [applies |-> case.test_type = "sql_injection" /\ status < 400,
           outcome |-> "failed", reason |-> <<"SQL", "injection">>],
          [applies |-> case.test_type = "xss" /\ status < 400, outcome |-> "failed",
           reason |-> <<"XSS">>],
          [applies |-> TRUE, outcome |-> "passed", reason |-> NoReason]>>

FirstMatchingRule ==
    LET first == CHOOSE k \in 1..Len(ClassifierRules) :
                    /\ ClassifierRules[k].applies
                    /\ \A j \in 1..(k - 1) : ~ClassifierRules[j].applies
    IN  ClassifierRules[first]

\* C17: for every status code, expectedFailure, test type and body, the
\* classifier's outcome and reason are those of the first rule that applies in
\* the order 5xx, invalid success, leak indicator, sql_injection/xss below
\* 400, otherwise PASSED; a 503 with expectedFailure is a 5xx failure.
C17_ClassifierFirstMatch ==
    classified.result # "none" =>
        /\ classified.result = FirstMatchingRule.outcome
        /\ SubSeq(classified.failure_reason, 1, Len(FirstMatchingRule.reason))
               = FirstMatchingRule.reason
        /\ (classified.status_code = 503 /\ classified.test_case.expected_failure
               => classified.failure_reason = <<"5xx", "Server", "Error", "503">>)

\* C17 witness: a 503 answer to a test case that expects failure has been
\* classified as a 5xx failure
C17_Witness ==
    /\ classified.result = "failed"
    /\ classified.status_code = 503
    /\ classified.test_case.expected_failure
    /\ classified.failure_reason[1] = "5xx"

(***************************************************************************)
(* SpecRun: one run of the executor (services/test_executor.py).           *)
(***************************************************************************)
\* line 24: the limit an executor gets when none is passed, as run_test_suite
\* constructs it (line 287)
DefaultMaxConcurrent == 5

\* execute_test_case with the handler of line 104 left out: a timeout is caught
\* by the handler of line 115
execute_test_case_TimeoutAsError(test_case, outcome) ==
    CASE outcome.kind = "response" ->
            LET a == _analyze_response(outcome.status_code, outcome.body, test_case)
            IN  [test_case |-> test_case, status_code |-> outcome.status_code,
                 result |-> a.result, failure_reason |-> a.failure_reason]
      [] OTHER ->
            [test_case |-> test_case, status_code |-> NoIdx, result |-> "error",
             failure_reason |-> <<"Execution", "error:">> \o outcome.text]

\* lines 42-126: what execute_test_case returns once its one request has ended
\* as outcome says; outcome.body is the body as _sanitize_response returns it,
\* outcome.text is str(e) of the exception caught at line 115
execute_test_case(test_case, outcome) ==
    CASE outcome.kind = "response" ->
            LET a == _analyze_response(outcome.status_code, outcome.body, test_case)
            IN  [test_case |-> test_case, status_code |-> outcome.status_code,
                 result |-> a.result, failure_reason |-> a.failure_reason]
      [] outcome.kind = "timeout" ->
            [test_case |-> test_case, status_code |-> NoIdx, result |-> "timeout",
             failure_reason |-> <<"Request", "timeout">>]
      [] OTHER ->
            [test_case |-> test_case, status_code |-> NoIdx, result |-> "error",
             failure_reason |-> <<"Execution", "error:">> \o outcome.text]

\* an asyncio.CancelledError instance: it is a BaseException, not an Exception,
\* and holds no test case
CancelledError ==
    [test_case |-> NoCase, status_code |-> NoIdx, result |-> "CancelledError",
     failure_reason |-> NoReason]

\* lines 141-143: what gather finds in a task. A task cancelled while it waits
\* for its response raises CancelledError, which neither handler of
\* execute_test_case (lines 104, 115: TimeoutError, Exception) catches
execute_with_semaphore(test_case, outcome) ==
    IF outcome.kind = "cancelled"
    THEN CancelledError
    ELSE execute_test_case(test_case, outcome)

\* a limiter that lets every task in
SlotFree_Unbounded(holders, limit) == TRUE

\* line 142: the semaphore lets a task in while fewer than max_concurrent hold it
SlotFree(holders, limit) == Cardinality(holders) < limit

\* a task that goes back to waiting for a slot to send its request again
\* after a timeout
AfterRequest_RetryOnTimeout(outcome) ==
    IF outcome.kind = "timeout" THEN "pending" ELSE "done"

\* lines 94-126: every path of execute_test_case returns, so the task is over
\* once its request has ended
AfterRequest(outcome) == "done"

\* line 146: asyncio.gather returns the tasks' results in the order the tasks
\* were passed, whatever order they finished in
gather(results, completion_order) == results

\* lines 149-163: a result that is an exception is replaced by an error result
\* for test_cases[i], any other is kept
FinalResult(test_cases, i, result) ==
    IF result.result = "exception"
    THEN [test_case |-> test_cases[i], status_code |-> NoIdx, result |-> "error",
          failure_reason |-> <<"Task", "execution", "failed:">>]
    ELSE result

\* a gather that gives up on the first failed task: every result is lost
Collect_AbortOnFailure(test_cases, results) ==
    IF \E i \in 1..Len(results) : results[i].result \notin {"passed", "failed"}
    THEN [i \in 1..Len(results) |->
            [test_case |-> test_cases[i], status_code |-> NoIdx, result |-> "error",
             failure_reason |-> <<"Task", "execution", "failed:">>]]
    ELSE [i \in 1..Len(results) |-> FinalResult(test_cases, i, results[i])]

\* lines 149-165: the loop over the gathered results
Collect(test_cases, results) ==
    [i \in 1..Len(results) |-> FinalResult(test_cases, i, results[i])]

\* an exit that closes the session only when no exception leaves the block
aexit_OnSuccessOnly(self_session, exc_type) ==
    IF exc_type = "none" /\ self_session # "none" THEN "closed" ELSE self_session

\* lines 37-40: the session, if there is one, is closed whatever exception
\* leaves the block
__aexit__(self_session, exc_type) ==
    IF self_session # "none" THEN "closed" ELSE self_session

RunCases ==
    {[endpoint |-> "/a", method |-> "GET", test_type |-> "xss", expected_failure |-> TRUE],
     [endpoint |-> "/b", method |-> "POST", test_type |-> "missing_field",
      expected_failure |-> FALSE]}

NoOutcome == [kind |-> "none", status_code |-> NoIdx, body |-> <<>>, text |-> <<>>]

Outcomes ==
    {[kind |-> "response", status_code |-> 200, body |-> <<>>, text |-> <<>>],
     [kind |-> "response", status_code |-> 500, body |-> <<>>, text |-> <<>>],
     [kind |-> "timeout", status_code |-> NoIdx, body |-> <<>>, text |-> <<>>],
     [kind |-> "error", status_code |-> NoIdx, body |-> <<>>,
      text |-> <<"Cannot", "connect">>],
     [kind |-> "cancelled", status_code |-> NoIdx, body |-> <<>>, text |-> <<>>]}

Tasks == 1..Len(run_cases)

InFlight == {i \in Tasks : task_pc[i] = "inflight"}

\* lines 24-28: an executor constructed for a plan's test cases
InitRun ==
    /\ ValidateIdle
    /\ UploadIdle
    /\ CallIdle
    /\ FlowIdle
    /\ ClassifyIdle
    /\ ScoreIdle
    /\ run_cases \in SeqsUpTo(RunCases, MaxRunTests)
    /\ max_concurrent \in (1..MaxConcurrent) \cup {DefaultMaxConcurrent}
    /\ session = "none"
    /\ run_pc = "created"
    /\ task_pc = [i \in 1..Len(run_cases) |-> "pending"]
    /\ task_result = [i \in 1..Len(run_cases) |-> NoTaskResult]
    /\ completed = <<>>
    /\ final_results = <<>>
    /\ attempts = [i \in 1..Len(run_cases) |-> 0]
    /\ task_outcome = [i \in 1..Len(run_cases) |-> NoOutcome]

\* lines 30-35 and 139-146: the session is opened, the semaphore and one task
\* per test case are created
Enter ==
    /\ run_pc = "created"
    /\ session' = "open"
    /\ run_pc' = "running"
    /\ UNCHANGED <<run_cases, max_concurrent, task_pc, task_result, completed,
                   final_results, attempts, task_outcome>>
    /\ UNCHANGED <<validate_vars, upload_vars, classify_vars, score_vars, call_vars, flow_vars>>

\* lines 142 and 72: the oldest waiting task gets a slot of the semaphore and
\* issues its request
Acquire(i) ==
    /\ run_pc = "running"
    /\ task_pc[i] = "pending"
    /\ \A j \in 1..(i - 1) : task_pc[j] # "pending"
    /\ SlotFree(InFlight, max_concurrent)
    /\ attempts[i] < MaxAttempts
    /\ task_pc' = [task_pc EXCEPT ![i] = "inflight"]
    /\ attempts' = [attempts EXCEPT ![i] = @ + 1]
    /\ UNCHANGED <<run_cases, max_concurrent, session, run_pc, task_result, completed,
                   final_results, task_outcome>>
    /\ UNCHANGED <<validate_vars, upload_vars, classify_vars, score_vars, call_vars, flow_vars>>

\* lines 77-126 and 142-143: the request ends, the task returns its result
\* (or raises) and gives its slot back
Complete(i) ==
    /\ run_pc = "running"
    /\ task_pc[i] = "inflight"
    /\ \E outcome \in Outcomes :
          /\ task_result' =
                [task_result EXCEPT ![i] = execute_with_semaphore(run_cases[i], outcome)]
          /\ task_outcome' = [task_outcome EXCEPT ![i] = outcome]
          /\ task_pc' = [task_pc EXCEPT ![i] = AfterRequest(outcome)]
    /\ completed' = Append(completed, i)
    /\ UNCHANGED <<run_cases, max_concurrent, session, run_pc, final_results, attempts>>
    /\ UNCHANGED <<validate_vars, upload_vars, classify_vars, score_vars, call_vars, flow_vars>>

\* lines 146-165: every task has finished, the results are put together
Gather ==
    /\ run_pc = "running"
    /\ \A i \in Tasks : task_pc[i] = "done"
    /\ final_results' = Collect(run_cases, gather(task_result, completed))
    /\ run_pc' = "gathered"
    /\ UNCHANGED <<run_cases, max_concurrent, session, task_pc, task_result, completed,
                   attempts, task_outcome>>
    /\ UNCHANGED <<validate_vars, upload_vars, classify_vars, score_vars, call_vars, flow_vars>>

\* line 146: the run itself is cancelled while it waits in gather; gather
\* cancels every task that has not finished and CancelledError leaves
\* _execute_concurrently and execute_test_suite
Cancel ==
    /\ run_pc = "running"
    /\ task_pc' = [i \in Tasks |-> IF task_pc[i] = "done" THEN "done" ELSE "cancelled"]
    /\ run_pc' = "raising"
    /\ UNCHANGED <<run_cases, max_concurrent, session, task_result, completed,
                   final_results, attempts, task_outcome>>
    /\ UNCHANGED <<validate_vars, upload_vars, classify_vars, score_vars, call_vars, flow_vars>>

\* lines 37-40: the block of line 287 (or 133) is left, with the list or with
\* the exception
Exit ==
    /\ run_pc \in {"gathered", "raising"}
    /\ session' = __aexit__(session, IF run_pc = "raising" THEN "CancelledError" ELSE "none")
    /\ run_pc' = IF run_pc = "raising" THEN "raised" ELSE "returned"
    /\ UNCHANGED <<run_cases, max_concurrent, task_pc, task_result, completed,
                   final_results, attempts, task_outcome>>
    /\ UNCHANGED <<validate_vars, upload_vars, classify_vars, score_vars, call_vars, flow_vars>>

NextRun ==
    \/ Enter
    \/ \E i \in Tasks : Acquire(i)
    \/ \E i \in Tasks : Complete(i)
    \/ Gather
    \/ Cancel
    \/ Exit

SpecRun == InitRun /\ [][NextRun]_vars

(***************************************************************************)
(* Properties of a run (SpecRun).                                          *)
(***************************************************************************)
\* C10: the list a run returns has one result per submitted test case, and
\* the i-th result is the result of the i-th submitted test case, whatever
\* order the tasks finished in and whichever of them failed.
C10_ResultsIndexAligned ==
    run_pc \in {"gathered", "returned"} =>
        /\ Len(final_results) = Len(run_cases)
        /\ \A i \in 1..Len(run_cases) : final_results[i].test_case = run_cases[i]

\* the tasks whose request did not end with a response
FailedTasks == {i \in Tasks : task_outcome[i].kind \in {"timeout", "error", "cancelled"}}

\* C11: at no time are more than max_concurrent requests in flight, and a task
\* starts its request only in a state where fewer than max_concurrent are in
\* flight: once the limit is reached, only after an in-flight one has finished
\* and freed its slot.
C11_InFlightWithinLimit ==
    /\ [](Cardinality(InFlight) <= max_concurrent)
    /\ [][\A i \in Tasks :
            task_pc[i] = "pending" /\ task_pc'[i] = "inflight"
                => Cardinality(InFlight) < max_concurrent]_vars

\* C11 witness: the limit is reached while a test case waits, after another
\* request has already finished and freed its slot
C11_Witness ==
    /\ run_pc = "running"
    /\ Cardinality(InFlight) = max_concurrent
    /\ \E i \in Tasks : task_pc[i] = "pending"
    /\ \E i \in Tasks : task_pc[i] = "done"

\* C12: within a run no test case's request is issued more than once, whatever
\* its outcome was.
C12_AtMostOneAttempt ==
    \A i \in Tasks : attempts[i] <= 1

\* C12 witness: a returned run in which one request timed out and another
\* failed with an error, each issued once
C12_Witness ==
    /\ run_pc = "returned"
    /\ \E i \in Tasks : task_outcome[i].kind = "timeout" /\ attempts[i] = 1
    /\ \E i \in Tasks : task_outcome[i].kind = "error" /\ attempts[i] = 1

\* C13: when a task times out, errors or is cancelled, every test case has
\* still been attempted and every test case's entry in the returned list is
\* the one its own request's outcome determines; the failure shows in the
\* failed task's entry only.
C13_FailuresAreIsolated ==
    run_pc \in {"gathered", "returned"} /\ FailedTasks # {} =>
        \A j \in Tasks :
            /\ attempts[j] = 1
            /\ task_pc[j] = "done"
            /\ final_results[j] =
                  FinalResult(run_cases, j,
                              execute_with_semaphore(run_cases[j], task_outcome[j]))

\* C13 witness: a returned run in which a task timed out, another was
\* cancelled, and a sibling that got a 200 answer passed
C13_Witness ==
    /\ run_pc = "returned"
    /\ \E i \in Tasks : task_outcome[i].kind = "timeout"
    /\ \E i \in Tasks : task_outcome[i].kind = "cancelled"
    /\ \E j \in Tasks :
          /\ task_outcome[j].kind = "response"
          /\ task_outcome[j].status_code = 200
          /\ final_results[j].result = "passed"
          /\ final_results[j].test_case = run_cases[j]

\* C14: a test case whose request timed out has the result timeout, the
\* failure reason "Request timeout" and no status code, in its task and in the
\* returned list.
C14_TimeoutResult ==
    \A i \in Tasks :
        task_outcome[i].kind = "timeout" =>
            /\ task_result[i].result = "timeout"
            /\ task_result[i].failure_reason = <<"Request", "timeout">>
            /\ task_result[i].status_code = NoIdx
            /\ task_result[i].test_case = run_cases[i]
            /\ (run_pc \in {"gathered", "returned"} => final_results[i] = task_result[i])

\* C14 witness: a returned run with a timed-out test case
C14_Witness ==
    /\ run_pc = "returned"
    /\ \E i \in Tasks :
          task_outcome[i].kind = "timeout" /\ final_results[i].result = "timeout"

\* C15: a test case whose request raised anything but a timeout has, in the
\* returned list, the result error, no status code and a non-empty failure
\* reason.
C15_ExceptionGivesErrorResult ==
    run_pc \in {"gathered", "returned"} =>
        \A i \in Tasks :
            task_outcome[i].kind \in {"error", "cancelled"} =>
                /\ final_results[i].result = "error"
                /\ final_results[i].status_code = NoIdx
                /\ final_results[i].failure_reason # NoReason
                /\ Len(final_results[i].failure_reason) > 0

\* C16: when the run has ended, by returning its list or by raising, the
\* session it opened is closed; and no session is open before the run starts.
C16_SessionClosedAtEnd ==
    /\ (run_pc \in {"returned", "raised"} => session = "closed")
    /\ (session = "open" => run_pc \in {"running", "gathered", "raising"})

\* C16 witness: a run that was cancelled after one of its requests had timed
\* out has raised, and its session is closed
C16_Witness ==
    /\ run_pc = "raised"
    /\ session = "closed"
    /\ \E i \in Tasks : task_outcome[i].kind = "timeout"
    /\ \E i \in Tasks : task_pc[i] = "cancelled"

(***************************************************************************)
(* The score calculator (services/stability_score.py).                     *)
(***************************************************************************)
\* line 28: result.get('failure_reason', '') or ''
ReasonText(result) ==
    IF result.failure_reason = NoReason THEN <<>> ELSE result.failure_reason

\* lines 33-36: the result adds one to num_5xx_errors
Counts5xx(result) ==
    \/ result.status_code # NoIdx /\ result.status_code # 0 /\ result.status_code >= 500
    \/ Contains(<<"5xx">>, ReasonText(result))
    \/ Contains(<<"Server", "Error">>, ReasonText(result))

\* lines 39-40: the result adds one to num_invalid_success
CountsInvalidSuccess(result) ==
    \/ Contains(<<"Invalid", "success">>, ReasonText(result))
    \/ Contains(<<"bad", "input", "was", "accepted">>, lower(ReasonText(result)))

\* every result that is not a response counts as a timeout
CountsTimeout_AnyError(result) ==
    \/ Contains(<<"timeout">>, lower(ReasonText(result)))
    \/ result.result \in {"timeout", "error"}

\* lines 43-44: the result adds one to num_timeouts
CountsTimeout(result) ==
    \/ Contains(<<"timeout">>, lower(ReasonText(result)))
    \/ result.result = "timeout"

Max(a, b) == IF a >= b THEN a ELSE b

Min(a, b) == IF a <= b THEN a ELSE b

\* a score that is not clamped
Clamp_None(score) == score

\* line 57: max(0.0, min(100.0, score))
Clamp(score) == Max(0, Min(100, score))

\* lines 13 and 51-59; every operand is a whole number, so round(score, 2)
\* leaves the value as it is
Score(num_5xx_errors, num_invalid_success, num_timeouts) ==
    Clamp(100 - 5 * num_5xx_errors - 3 * num_invalid_success - 2 * num_timeouts)

\* the penalty of a result that counts for the first only of the conditions it
\* matches, 5xx before invalid success before timeout
PenaltyByPrecedence(result) ==
    IF Counts5xx(result) THEN 5
    ELSE IF CountsInvalidSuccess(result) THEN 3
    ELSE IF CountsTimeout(result) THEN 2
    ELSE 0

ScoreCases ==
    {[endpoint |-> "/users", method |-> "GET", test_type |-> "missing_field",
      expected_failure |-> e] : e \in BOOLEAN}

\* str(e) of exceptions caught at line 115 of test_executor.py
ErrorTexts ==
    {<<"Cannot", "connect">>,
     <<"Read", "Timeout">>,
     <<"502", "Server", "Error", "after", "timeout">>}

ScoreOutcomes ==
    {[kind |-> "response", status_code |-> 200, body |-> <<>>, text |-> <<>>],
     [kind |-> "response", status_code |-> 500, body |-> <<>>, text |-> <<>>],
     [kind |-> "timeout", status_code |-> NoIdx, body |-> <<>>, text |-> <<>>]}
    \cup {[kind |-> "error", status_code |-> NoIdx, body |-> <<>>, text |-> t] :
             t \in ErrorTexts}

\* the results the executor returns for these cases and outcomes
EngineResults ==
    {execute_test_case(test_case, outcome) :
        test_case \in ScoreCases, outcome \in ScoreOutcomes}

\* results that no run of the executor returns: a 500 whose failure reason
\* also mentions a timeout
CraftedResults ==
    {[test_case |-> [endpoint |-> "/users", method |-> "GET",
                     test_type |-> "missing_field", expected_failure |-> FALSE],
      status_code |-> 500, result |-> "failed",
      failure_reason |-> <<"5xx", "Server", "Error", "500", "gateway", "timeout">>]}

ScoreResults == EngineResults \cup CraftedResults

\* lines 27-59 for one more result at the end of the list
CountResult(t, result) ==
    LET n5 == t.num_5xx_errors + (IF Counts5xx(result) THEN 1 ELSE 0)
        ni == t.num_invalid_success + (IF CountsInvalidSuccess(result) THEN 1 ELSE 0)
        nt == t.num_timeouts + (IF CountsTimeout(result) THEN 1 ELSE 0)
    IN  [n |-> t.n + 1, num_5xx_errors |-> n5, num_invalid_success |-> ni,
         num_timeouts |-> nt, score |-> Score(n5, ni, nt),
         penalty_by_precedence |-> t.penalty_by_precedence + PenaltyByPrecedence(result),
         engine_results |-> t.engine_results /\ result \in EngineResults]

(***************************************************************************)
(* SpecScore: calculate_stability_score on a list of results, one          *)
(* iteration of its loop at a time; tally.score is what it returns for     *)
(* the results read so far.                                                *)
(***************************************************************************)
InitScore ==
    /\ ValidateIdle
    /\ UploadIdle
    /\ CallIdle
    /\ FlowIdle
    /\ RunIdle
    /\ ClassifyIdle
    /\ tally = NoTally

ReadResult ==
    /\ tally.n < MaxResults
    /\ \E result \in ScoreResults : tally' = CountResult(tally, result)
    /\ UNCHANGED <<validate_vars, upload_vars, run_vars, classify_vars, call_vars, flow_vars>>

NextScore == ReadResult

SpecScore == InitScore /\ [][NextScore]_vars

(***************************************************************************)
(* Properties of the score (SpecScore).                                    *)
(***************************************************************************)
\* C18: every result adds one to at most one of the three counters (the 5xx
\* counter if it matches the 5xx condition, else the invalid-success counter,
\* else the timeout counter), so a result matching several conditions is
\* penalised once.
C18_OneCounterPerResult ==
    [][tally'.n = tally.n + 1 =>
          /\ (tally'.num_5xx_errors - tally.num_5xx_errors)
               + (tally'.num_invalid_success - tally.num_invalid_success)
               + (tally'.num_timeouts - tally.num_timeouts) <= 1
          /\ 5 * (tally'.num_5xx_errors - tally.num_5xx_errors)
               + 3 * (tally'.num_invalid_success - tally.num_invalid_success)
               + 2 * (tally'.num_timeouts - tally.num_timeouts)
               = tally'.penalty_by_precedence - tally.penalty_by_precedence]_vars

\* C19: the score of every list of results is between 0 and 100, and it is 0
\* when 25 or more results count as 5xx.
C19_ScoreWithinBounds ==
    /\ tally.score >= 0
    /\ tally.score <= 100
    /\ (tally.num_5xx_errors >= 25 => tally.score = 0)

\* C19 witness: 25 results counted as 5xx, whose penalties add up to more than
\* 100, score 0
C19_Witness ==
    /\ tally.num_5xx_errors >= 25
    /\ 5 * tally.num_5xx_errors > 100
    /\ tally.score = 0

\* C20: for results the executor returns, the score is 100 minus 5 per result
\* counted as 5xx, 3 per invalid success and 2 per timeout, each result
\* counted once, clamped to 0..100.
C20_ScoreFormula ==
    tally.engine_results =>
        tally.score = Max(0, Min(100, 100 - tally.penalty_by_precedence))

(***************************************************************************)
(* The health band and the recommendations get_final_report puts into a    *)
(* report, as a function of the TestRun row's stability_score (NoIdx for   *)
(* None), of whether the run has TestFailure rows and of its agent2_called *)
(* flag.                                                                   *)
(***************************************************************************)
\* the band limits taken as strict
report_health_StrictLimits(stability_score, has_failures, agent2_called) ==
    LET banded(overall_health, recommendation) ==
            [stability_score |-> stability_score,
             overall_health |-> overall_health,
             recommendations |-> <<recommendation>>]
    IN  IF stability_score > 90
        THEN banded("EXCELLENT", "API is very stable. Consider adding more edge case tests.")
        ELSE IF stability_score > 70
        THEN banded("GOOD", "API is generally stable. Address the critical issues first.")
        ELSE IF stability_score > 50
        THEN banded("FAIR", "API needs improvement. Focus on high-risk failures.")
        ELSE banded("POOR", "API is unstable. Immediate action required on critical issues.")

\* schema_routes.py line 686 (stability_score or 0.0), lines 692 and 695-708
\* (the band and its recommendation), lines 710-712 (the advice to analyse)
report_health(stability_score, has_failures, agent2_called) ==
    LET advice ==
            IF has_failures /\ ~agent2_called
            THEN <<"Run failure analysis to get AI-powered root cause and fix suggestions.">>
            ELSE <<>>
        banded(overall_health, recommendation) ==
            [stability_score |-> stability_score,
             overall_health |-> overall_health,
             recommendations |-> <<recommendation>> \o advice]
    IN  IF stability_score = NoIdx
        THEN [stability_score |-> 0, overall_health |-> MISSING, recommendations |-> advice]
        ELSE IF stability_score >= 90
        THEN banded("EXCELLENT", "API is very stable. Consider adding more edge case tests.")
        ELSE IF stability_score >= 70
        THEN banded("GOOD", "API is generally stable. Address the critical issues first.")
        ELSE IF stability_score >= 50
        THEN banded("FAIR", "API needs improvement. Focus on high-risk failures.")
        ELSE banded("POOR", "API is unstable. Immediate action required on critical issues.")

\* stability_score.py lines 52-59: a score is a whole number of points from 0
\* to 100; schema_routes.py line 695: or None while the run is not scored
StoredScores == (0..100) \cup {NoIdx}

\* C21: the report of a run that has a score carries the band of that score
\* alone (EXCELLENT from 90, GOOD from 70 to below 90, FAIR from 50 to below 70,
\* POOR below 50, 0 included) and exactly one band recommendation, the one fixed
\* for that band, whatever the failures and the agent2_called flag of the run.
C21_HealthBandOfScore ==
    (call.fn = "get_final_report" /\ call.ret # <<>> /\ call.args.stability_score # NoIdx)
        => LET score == call.args.stability_score
               report == call.ret[1]
               fixed == [EXCELLENT |-> "API is very stable. Consider adding more edge case tests.",
                         GOOD |-> "API is generally stable. Address the critical issues first.",
                         FAIR |-> "API needs improvement. Focus on high-risk failures.",
                         POOR |-> "API is unstable. Immediate action required on critical issues."]
               of_a_band == {i \in DOMAIN report.recommendations :
                                \E band \in DOMAIN fixed :
                                   report.recommendations[i] = fixed[band]}
           IN  /\ score >= 90 => report.overall_health = "EXCELLENT"
               /\ score >= 70 /\ score < 90 => report.overall_health = "GOOD"
               /\ score >= 50 /\ score < 70 => report.overall_health = "FAIR"
               /\ score < 50 => report.overall_health = "POOR"
               /\ Cardinality(of_a_band) = 1
               /\ \A i \in of_a_band :
                      report.recommendations[i] = fixed[report.overall_health]

\* a report of a run scored 0 that has unanalysed failures: the band is POOR
\* and the advice to analyse follows the band's recommendation
C21_Witness ==
    /\ call.fn = "get_final_report"
    /\ call.ret # <<>>
    /\ call.args.stability_score = 0
    /\ call.args.has_failures /\ ~call.args.agent2_called
    /\ call.ret[1].overall_health = "POOR"
    /\ Len(call.ret[1].recommendations) = 2

(***************************************************************************)
(* _sanitize_response.  A JSON document is modelled by the value           *)
(* json.loads gives for it: a dict (its keys in document order, unique,    *)
(* and their values), a list or a scalar; json.dumps writes that value     *)
(* back with the same keys, values and order.  A key is a sequence of      *)
(* words, as the texts searched by the classifier are.                     *)
(***************************************************************************)
\* test_executor.py lines 179-180
sensitive_keys ==
    {<<"password">>, <<"token">>, <<"secret">>, <<"key">>, <<"authorization">>,
     <<"credit_card">>, <<"ssn">>, <<"phone">>, <<"email">>, <<"address">>}

\* the key compared as it is written
is_sensitive_CaseSensitive(key) == \E sensitive \in sensitive_keys : Contains(sensitive, key)

\* line 185
is_sensitive(key) == \E sensitive \in sensitive_keys : Contains(sensitive, lower(key))

\* line 186
REDACTED == [t |-> "str", v |-> "***REDACTED***"]

RECURSIVE sanitize_dict(_)
\* lines 182-190
sanitize_dict(obj) ==
    IF obj.t = "dict"
    THEN [obj EXCEPT !.vals =
            [k \in DOMAIN obj.vals |->
                IF is_sensitive(obj.keys[k]) THEN REDACTED
                ELSE IF obj.vals[k].t \in {"dict", "list"} THEN sanitize_dict(obj.vals[k])
                ELSE obj.vals[k]]]
    ELSE IF obj.t = "list"
    THEN [t |-> "list", items |-> [k \in DOMAIN obj.items |-> sanitize_dict(obj.items[k])]]
    ELSE obj

\* lines 167-197: an empty body gives "", a JSON body the sanitized document,
\* any other body its first 1000 characters (a text is a sequence of characters)
_sanitize_response(response_body) ==
    IF response_body.kind = "empty" THEN [kind |-> "empty"]
    ELSE IF response_body.kind = "json"
    THEN [kind |-> "json", data |-> sanitize_dict(response_body.data)]
    ELSE [kind |-> "text",
          text |-> SubSeq(response_body.text, 1, Min(1000, Len(response_body.text)))]

JsonKeys == {<<"user", "Password">>, <<"name">>}

JsonScalar == [t |-> "str", v |-> "v"]

\* the dicts and lists of up to two entries whose values are in S
JsonContainers(S) ==
    {[t |-> "dict", keys |-> <<>>, vals |-> <<>>]}
    \cup {[t |-> "dict", keys |-> <<key>>, vals |-> <<v>>] : key \in JsonKeys, v \in S}
    \cup {[t |-> "dict", keys |-> <<<<"user", "Password">>, <<"name">>>>, vals |-> <<v, w>>] :
             v \in S, w \in S}
    \cup {[t |-> "list", items |-> <<>>]}
    \cup {[t |-> "list", items |-> <<v>>] : v \in S}
    \cup {[t |-> "list", items |-> <<v, w>>] : v \in S, w \in S}

RECURSIVE JsonValues(_)
JsonValues(depth) ==
    IF depth = 0 THEN {JsonScalar}
    ELSE {JsonScalar} \cup JsonContainers(JsonValues(depth - 1))

\* the bodies of responses: none, a text that is not JSON, a JSON document
\* nested up to depth
ResponseBodies(depth) ==
    {[kind |-> "empty"], [kind |-> "text", text |-> <<"<", "h", "t", "m", "l", ">">>]}
    \cup {[kind |-> "json", data |-> data] : data \in JsonValues(depth)}

(***************************************************************************)
(* _get_safe_headers and the "headers" entry of a result.  The headers of  *)
(* a response are a function from header names to values.                 *)
(***************************************************************************)
\* test_executor.py lines 202-203
safe_header_names ==
    {"content-type", "content-length", "server", "date", "cache-control", "x-request-id",
     "x-response-time"}

\* the name compared as it is written
is_safe_header_CaseSensitive(key) == key \in safe_header_names

\* line 206
is_safe_header(key) == Lower(key) \in safe_header_names

\* lines 199-208
_get_safe_headers(headers) ==
    [key \in {k \in DOMAIN headers : is_safe_header(k)} |-> headers[key]]

\* lines 99, 111 and 123: the "headers" entry of the result of execute_test_case
result_headers(outcome) ==
    IF outcome.kind = "response" THEN _get_safe_headers(outcome.headers) ELSE <<>>

HeaderNames ==
    {"Content-Type", "content-length", "SERVER", "date", "Set-Cookie", "Authorization",
     "X-Powered-By"}

HeaderOutcomes ==
    {[kind |-> "response", headers |-> [key \in names |-> "v"]] : names \in SUBSET HeaderNames}
    \cup {[kind |-> kind, headers |-> <<>>] : kind \in {"timeout", "error"}}

(***************************************************************************)
(* SpecCall: one call of get_final_report's banding, of _sanitize_response *)
(* or of the headers of a result, on an arbitrary argument.                *)
(***************************************************************************)
Calls(depth) ==
    {[fn |-> "get_final_report",
      args |-> [stability_score |-> stability_score, has_failures |-> has_failures,
                agent2_called |-> agent2_called],
      ret |-> <<>>] :
        stability_score \in StoredScores, has_failures \in BOOLEAN, agent2_called \in BOOLEAN}
    \cup {[fn |-> "_sanitize_response", args |-> response_body, ret |-> <<>>] :
             response_body \in ResponseBodies(depth)}
    \cup {[fn |-> "execute_test_case", args |-> outcome, ret |-> <<>>] :
             outcome \in HeaderOutcomes}

InitCall ==
    /\ ValidateIdle
    /\ UploadIdle
    /\ RunIdle
    /\ ClassifyIdle
    /\ ScoreIdle
    /\ FlowIdle
    /\ call \in Calls(MaxJsonDepth)

ReportHealth ==
    /\ call.fn = "get_final_report"
    /\ call.ret = <<>>
    /\ call' = [call EXCEPT !.ret = <<report_health(call.args.stability_score,
                                                    call.args.has_failures,
                                                    call.args.agent2_called)>>]
    /\ UNCHANGED <<validate_vars, upload_vars, run_vars, classify_vars, score_vars,
                   flow_vars>>

SanitizeResponse ==
    /\ call.fn = "_sanitize_response"
    /\ call.ret = <<>>
    /\ call' = [call EXCEPT !.ret = <<_sanitize_response(call.args)>>]
    /\ UNCHANGED <<validate_vars, upload_vars, run_vars, classify_vars, score_vars,
                   flow_vars>>

ResultHeaders ==
    /\ call.fn = "execute_test_case"
    /\ call.ret = <<>>
    /\ call' = [call EXCEPT !.ret = <<result_headers(call.args)>>]
    /\ UNCHANGED <<validate_vars, upload_vars, run_vars, classify_vars, score_vars,
                   flow_vars>>

NextCall == ReportHealth \/ SanitizeResponse \/ ResultHeaders

SpecCall == InitCall /\ [][NextCall]_vars

RECURSIVE Sanitized(_, _)
\* out is the document data with the value of every key that names a
\* sensitive keyword replaced by the marker and everything else as it was
Sanitized(data, out) ==
    /\ out.t = data.t
    /\ data.t = "dict" =>
          /\ out.keys = data.keys
          /\ DOMAIN out.vals = DOMAIN data.vals
          /\ \A k \in DOMAIN data.keys :
                IF \E sensitive \in sensitive_keys : Contains(sensitive, lower(data.keys[k]))
                THEN out.vals[k] = REDACTED
                ELSE Sanitized(data.vals[k], out.vals[k])
    /\ data.t = "list" =>
          /\ DOMAIN out.items = DOMAIN data.items
          /\ \A k \in DOMAIN data.items : Sanitized(data.items[k], out.items[k])
    /\ data.t \notin {"dict", "list"} => out = data

\* C27: in the sanitized form of a JSON body every key, at any depth, whose name
\* contains a sensitive keyword in any letter case has the redaction marker as
\* its value, and every other key, its value and the nesting of dicts and lists,
\* in order, are those of the body.
C27_SanitizerRedactsByKey ==
    (call.fn = "_sanitize_response" /\ call.ret # <<>> /\ call.args.kind = "json")
        => /\ call.ret[1].kind = "json"
           /\ Sanitized(call.args.data, call.ret[1].data)

\* a dict nested in a list holds "userPassword" beside "name": the first is
\* redacted, the second kept
C27_Witness ==
    /\ call.fn = "_sanitize_response"
    /\ call.ret # <<>>
    /\ call.args.kind = "json"
    /\ call.args.data =
          [t |-> "list",
           items |-> <<[t |-> "dict", keys |-> <<<<"user", "Password">>, <<"name">>>>,
                        vals |-> <<JsonScalar, JsonScalar>>]>>]
    /\ call.ret[1].data.items[1].vals = <<REDACTED, JsonScalar>>

\* C28: the headers of a result are exactly the response headers whose name is,
\* in any letter case, one of content-type, content-length, server, date,
\* cache-control, x-request-id, x-response-time, with their values; the result
\* of a timeout or an error has no headers.
C28_OnlyAllowListedHeaders ==
    (call.fn = "execute_test_case" /\ call.ret # <<>>)
        => LET allowed ==
                   {"content-type", "content-length", "server", "date", "cache-control",
                    "x-request-id", "x-response-time"}
               kept == DOMAIN call.ret[1]
           IN  IF call.args.kind = "response"
               THEN /\ kept = {k \in DOMAIN call.args.headers : Lower(k) \in allowed}
                    /\ \A k \in kept : call.ret[1][k] = call.args.headers[k]
               ELSE kept = {}

\* a response with Content-Type, SERVER, Set-Cookie and Authorization keeps the
\* first two only
C28_Witness ==
    /\ call.fn = "execute_test_case"
    /\ call.ret # <<>>
    /\ call.args.kind = "response"
    /\ DOMAIN call.args.headers = {"Content-Type", "SERVER", "Set-Cookie", "Authorization"}
    /\ DOMAIN call.ret[1] = {"Content-Type", "SERVER"}

(***************************************************************************)
(* SpecFlow: the TestRun of a plan from run_test_suite to the report.      *)
(* run_cases holds the plan's test cases, final_results the list the       *)
(* executor returned; run_test_suite waits once, for the executor, so a    *)
(* request that runs the tests takes two steps (StartRun, FinishRun) and   *)
(* every other request one.                                                *)
(***************************************************************************)
\* agent2_service.py lines 10-14
RiskLevel == {"low", "medium", "high", "critical"}

\* timeouts left out of the error counter
count_results_TimeoutsUncounted(results) ==
    [passed |-> Cardinality({k \in DOMAIN results : results[k].result = "passed"}),
     failed |-> Cardinality({k \in DOMAIN results : results[k].result = "failed"}),
     errors |-> Cardinality({k \in DOMAIN results : results[k].result = "error"})]

\* test_executor.py lines 291-304: PASSED counts as passed, FAILED as failed,
\* any other result as an error
count_results(results) ==
    [passed |-> Cardinality({k \in DOMAIN results : results[k].result = "passed"}),
     failed |-> Cardinality({k \in DOMAIN results : results[k].result = "failed"}),
     errors |-> Cardinality({k \in DOMAIN results :
                               results[k].result \notin {"passed", "failed"}})]

\* lines 307-318: the TestFailure row of a result
TestFailure(result) ==
    [endpoint |-> result.test_case.endpoint, test_type |-> result.test_case.test_type,
     status_code |-> result.status_code, failure_reason |-> result.failure_reason,
     root_cause |-> NoText, risk_level |-> NoText, fix_suggestion |-> NoText]

\* rows for the FAILED results only
failures_added_FailedOnly(results, n) ==
    LET RECURSIVE rows(_)
        rows(k) ==
            IF k = 0 THEN <<>>
            ELSE IF results[k].result = "failed"
            THEN Append(rows(k - 1), TestFailure(results[k]))
            ELSE rows(k - 1)
    IN  rows(n)

\* lines 296-319: the rows added to the session for the first n results
failures_added(results, n) ==
    LET failing == {k \in 1..n : results[k].result \in {"failed", "error", "timeout"}}
        RECURSIVE rows(_)
        rows(k) ==
            IF k = 0 THEN <<>>
            ELSE IF k \in failing THEN Append(rows(k - 1), TestFailure(results[k]))
            ELSE rows(k - 1)
    IN  rows(n)

\* the exception handler leaves the row as it is
mark_error_Skipped(run) == run

\* lines 346-348
mark_error(run) == [run EXCEPT !.status = "error"]

\* lines 285-351, after the TestRun row was committed as RUNNING: what
\* run_test_suite leaves in the database and whether it raises.  acquired
\* says whether the executor's session could be created, commits whether
\* the commit of line 331 succeeds.  A result that is a CancelledError has no
\* item "result": line 298 raises TypeError on it, and the handler's commit
\* writes the rows added before it with the status.  A commit that fails
\* rolls the session back, rows and counts included; the handler's own commit
\* of line 348 is taken to succeed.
run_test_suite(run, results, acquired, commits) ==
    LET cancelled == {k \in DOMAIN results : results[k].result = "CancelledError"}
        first == CHOOSE k \in cancelled : \A j \in cancelled : k <= j
        counts == count_results(results)
    IN  IF ~acquired
        THEN [test_run |-> mark_error(run), test_failures |-> <<>>, raised |-> "client"]
        ELSE IF cancelled # {}
        THEN [test_run |-> mark_error(run),
              test_failures |-> failures_added(results, first - 1),
              raised |-> "TypeError"]
        ELSE IF ~commits
        THEN [test_run |-> mark_error(run), test_failures |-> <<>>, raised |-> "commit"]
        ELSE [test_run |-> [run EXCEPT !.passed_tests = counts.passed,
                                       !.failed_tests = counts.failed,
                                       !.error_tests = counts.errors,
                                       !.status = "completed"],
              test_failures |-> failures_added(results, Len(results)),
              raised |-> "none"]

RECURSIVE calculate_stability_score(_)
\* stability_score.py lines 13-59 on the list all_results
calculate_stability_score(all_results) ==
    IF all_results = <<>> THEN NoTally
    ELSE CountResult(calculate_stability_score(SubSeq(all_results, 1, Len(all_results) - 1)),
                     all_results[Len(all_results)])

\* agent2_service.py lines 63-68 and 149-172: the analysis of one failure.
\* valid_key is Agent2Service.valid_key; answer is what the model returned:
\* a JSON object with or without a risk_level, a text that is not JSON, or
\* nothing because the call raised
analyze_failure(valid_key, answer) ==
    IF ~valid_key
    THEN [root_cause |-> "Gemini API key invalid", risk_level |-> "high",
          fix_suggestion |-> "Check your Gemini API key configuration"]
    ELSE IF answer.kind = "unreachable"
    THEN [root_cause |-> "Analysis failed due to system error", risk_level |-> "medium",
          fix_suggestion |-> "Retry analysis or check system logs"]
    ELSE IF answer.kind = "text"
    THEN [root_cause |-> "Failed to analyze failure", risk_level |-> "medium",
          fix_suggestion |-> "Check the API logs for more details"]
    ELSE LET risk == IF answer.risk_level = MISSING THEN "" ELSE Lower(answer.risk_level)
         IN  [root_cause |-> answer.root_cause,
              risk_level |-> IF risk \notin RiskLevel THEN "medium" ELSE answer.risk_level,
              fix_suggestion |-> answer.fix_suggestion]

AnalyzerAnswers ==
    {[kind |-> "json", root_cause |-> "Unhandled input", risk_level |-> risk_level,
      fix_suggestion |-> "Validate the input"] : risk_level \in {"high", "HIGH", MISSING}}
    \cup {[kind |-> kind, root_cause |-> "", risk_level |-> MISSING, fix_suggestion |-> ""] :
             kind \in {"text", "unreachable"}}

\* what decrypt_api_key and Agent2Service.__init__ make of the user's key
GeminiKeys == {"valid", "invalid", "undecryptable"}

\* the flag is left as it is
mark_agent2_called_Skipped(run) == run

\* agent2_service.py lines 257-265: the flag is set in the transaction that
\* writes the analyses
mark_agent2_called(run) == [run EXCEPT !.agent2_called = TRUE]

NoAnalyzerLog == [calls |-> 0, writes |-> 0, answer |-> "none", risk_level |-> MISSING]

\* agent2_service.py lines 203-275: rows, log and flag after the call, the list
\* it returns and whether it raised.  Only rows whose root_cause is None are
\* analysed; nothing is written when decrypt_api_key raises.
analyze_failures_with_agent2(run, rows, log, gemini_key, answers) ==
    LET failures == {i \in DOMAIN rows : rows[i].root_cause = NoText}
        analysis(i) == analyze_failure(gemini_key = "valid", answers[i])
    IN  IF gemini_key = "undecryptable"
        THEN [raised |-> TRUE, test_run |-> run, test_failures |-> rows,
              analyzer_log |-> log, analyses |-> <<>>]
        ELSE IF failures = {}
        THEN [raised |-> FALSE, test_run |-> run, test_failures |-> rows,
              analyzer_log |-> log, analyses |-> <<>>]
        ELSE [raised |-> FALSE,
              test_run |-> mark_agent2_called(run),
              test_failures |->
                 [i \in DOMAIN rows |->
                    IF i \in failures
                    THEN [rows[i] EXCEPT !.root_cause = analysis(i).root_cause,
                                         !.risk_level = analysis(i).risk_level,
                                         !.fix_suggestion = analysis(i).fix_suggestion]
                    ELSE rows[i]],
              analyzer_log |->
                 [i \in DOMAIN rows |->
                    IF i \notin failures THEN log[i]
                    ELSE IF gemini_key = "valid"
                    THEN [calls |-> log[i].calls + 1, writes |-> log[i].writes + 1,
                          answer |-> answers[i].kind, risk_level |-> answers[i].risk_level]
                    ELSE [log[i] EXCEPT !.writes = log[i].writes + 1]],
              analyses |-> [i \in DOMAIN rows |-> analysis(i)]]

\* schema_routes.py lines 576-586: the analyses read from the rows
stored_analyses(rows) ==
    [i \in DOMAIN rows |->
        [root_cause |-> rows[i].root_cause, risk_level |-> rows[i].risk_level,
         fix_suggestion |-> rows[i].fix_suggestion]]

\* the flag is not looked at
agent2_already_called_Never(run) == FALSE

\* schema_routes.py line 572
agent2_already_called(run) == run.agent2_called

\* an answered request
Reply(name, user_id, response) == [name |-> name, user_id |-> user_id, response |-> response]

\* HTTPException(404): "Schema not found", "Test run not found"
NotFound == [kind |-> "404", raised |-> "not found"]

\* the schema_id of a request
SchemaIds == 1..MaxPlans

\* schema_routes.py lines 427-430, 731-734 and test_executor.py lines 265-271:
\* the plan is looked up by its id and the user's id
owns_schema(user_id, schema_id) ==
    \E row \in store : row.schema_id = schema_id /\ row.user_id = user_id

\* schema_routes.py lines 547-550 and 631-634: the run is looked up by its id
\* and the user's id
owns_run(user_id, run) == run.status # "none" /\ run.user_id = user_id

\* schema_routes.py lines 620-714: the report of a run
get_final_report(run, rows) ==
    [summary |-> [total_tests |-> run.total_tests, passed_tests |-> run.passed_tests,
                  failed_tests |-> run.failed_tests, error_tests |-> run.error_tests,
                  total_failures |-> Len(rows)],
     failures |->
        [i \in DOMAIN rows |->
            [root_cause |->
                IF rows[i].root_cause \in {NoText, ""} THEN "Not analyzed yet"
                ELSE rows[i].root_cause,
             risk_level |->
                IF rows[i].risk_level \in {NoText, ""} THEN "medium" ELSE rows[i].risk_level,
             fix_suggestion |->
                IF rows[i].fix_suggestion \in {NoText, ""} THEN "Run failure analysis first"
                ELSE rows[i].fix_suggestion]],
     health |-> report_health(run.stability_score, rows # <<>>, run.agent2_called)]

\* schema_routes.py lines 783-816: steps 4 and 5 of complete_test_flow on a
\* completed run.  An exception of the analysis is logged and the report is
\* made all the same.
analyze_and_report(user_id, overlapped, run, rows, log) ==
    LET report(run2, rows2) ==
            route' = Reply("complete_test_flow", user_id,
                           [kind |-> "report", raised |-> "none", overlapped |-> overlapped,
                            report |-> get_final_report(run2, rows2)])
    IN  IF run.failed_tests > 0 /\ ~run.agent2_called
        THEN \E gemini_key \in GeminiKeys, answers \in [DOMAIN rows -> AnalyzerAnswers] :
                LET a == analyze_failures_with_agent2(run, rows, log, gemini_key, answers)
                IN  IF a.raised
                    THEN /\ test_run' = run
                         /\ test_failures' = rows
                         /\ analyzer_log' = log
                         /\ report(run, rows)
                    ELSE /\ test_run' = a.test_run
                         /\ test_failures' = a.test_failures
                         /\ analyzer_log' = a.analyzer_log
                         /\ report(a.test_run, a.test_failures)
        ELSE /\ test_run' = run
             /\ test_failures' = rows
             /\ analyzer_log' = log
             /\ report(run, rows)

\* the test cases of a plan of n test cases
FlowPlan(n) ==
    [i \in 1..n |->
        IF i % 2 = 1
        THEN [endpoint |-> "/b", method |-> "POST", test_type |-> "missing_field",
              expected_failure |-> FALSE]
        ELSE [endpoint |-> "/a", method |-> "GET", test_type |-> "xss",
              expected_failure |-> TRUE]]

\* the APISchema row of the plan the runs are about: user u1 has uploaded a
\* schema and upload_schema has stored what Agent 1 made of it
FlowSchema ==
    LET base_url == <<"h", "t", "t", "p", "s", ":", "/", "/", "a", ".", "b", ":", "8", "/">>
    IN  [schema_id |-> 1, user_id |-> "u1", base_url |-> base_url,
         schema_hash |-> calculate_schema_hash("schema1", base_url),
         normalized_schema |-> <<ValidEndpoint>>, test_cases |-> <<ValidTest>>]

\* the plan is stored, no run of it has been asked for; its n test cases are
\* what the executor will be given
InitFlowOf(n) ==
    /\ ValidateIdle
    /\ ClassifyIdle
    /\ ScoreIdle
    /\ CallIdle
    /\ store = {FlowSchema}
    /\ upload = NoUpload
    /\ reading = EmptyBag
    /\ run_cases = FlowPlan(n)
    /\ max_concurrent = 1
    /\ session = "none"
    /\ run_pc = "idle"
    /\ task_pc = <<>>
    /\ task_result = <<>>
    /\ completed = <<>>
    /\ final_results = <<>>
    /\ attempts = <<>>
    /\ task_outcome = <<>>
    /\ test_run = NoRun
    /\ test_failures = <<>>
    /\ analyzer_log = <<>>
    /\ route = NoRoute
    /\ in_flight = NoFlight

InitFlow == \E n \in 1..MaxFlowTests : InitFlowOf(n)

\* run_tests (schema_routes.py lines 416-446) or complete_test_flow without a
\* recent completed run (lines 716-768) up to the wait for the executor in
\* run_test_suite: the plan is looked up for the user, who gets a 404 when it
\* is not theirs, and the TestRun row is committed as RUNNING
StartRun ==
    /\ \E name \in {"run_tests", "complete_test_flow"}, user_id \in Users,
          schema_id \in SchemaIds :
          IF ~owns_schema(user_id, schema_id)
          THEN /\ route' = Reply(name, user_id, NotFound)
               /\ UNCHANGED <<test_run, in_flight>>
          ELSE /\ test_run.status = "none"
               /\ in_flight = NoFlight
               /\ test_run' = [NoRun EXCEPT !.status = "running",
                                            !.total_tests = Len(run_cases),
                                            !.user_id = user_id,
                                            !.schema_id = schema_id]
               /\ in_flight' = [name |-> name, user_id |-> user_id, overlapped |-> FALSE]
               /\ UNCHANGED route
    /\ UNCHANGED <<test_failures, analyzer_log, run_vars>>
    /\ UNCHANGED <<validate_vars, upload_vars, classify_vars, score_vars, call_vars>>

\* the rest of that request: run_test_suite from the executor's return on, the
\* score (schema_routes.py lines 452-458, 770-776), and for complete_test_flow
\* the analysis and the report
FinishRun ==
    /\ in_flight # NoFlight
    /\ \E acquired \in BOOLEAN :
       \E outcomes \in IF acquired THEN [DOMAIN run_cases -> Outcomes] ELSE {<<>>} :
       \E commits \in IF acquired THEN BOOLEAN ELSE {TRUE} :
          LET results == [i \in DOMAIN outcomes |->
                            execute_with_semaphore(run_cases[i], outcomes[i])]
              r == run_test_suite(test_run, results, acquired, commits)
              scored == [r.test_run EXCEPT
                            !.stability_score = calculate_stability_score(results).score]
              log == [i \in DOMAIN r.test_failures |-> NoAnalyzerLog]
          IN  /\ final_results' = results
              /\ IF r.raised # "none"
                 THEN /\ test_run' = r.test_run
                      /\ test_failures' = r.test_failures
                      /\ analyzer_log' = log
                      /\ route' = Reply(in_flight.name, in_flight.user_id,
                                        [kind |-> "500", raised |-> r.raised])
                 ELSE IF in_flight.name = "run_tests"
                 THEN /\ test_run' = scored
                      /\ test_failures' = r.test_failures
                      /\ analyzer_log' = log
                      /\ route' = Reply(in_flight.name, in_flight.user_id,
                                        [kind |-> "run", raised |-> "none"])
                 ELSE analyze_and_report(in_flight.user_id, in_flight.overlapped,
                                         scored, r.test_failures, log)
    /\ in_flight' = NoFlight
    /\ UNCHANGED <<run_cases, max_concurrent, session, run_pc, task_pc, task_result,
                   completed, attempts, task_outcome>>
    /\ UNCHANGED <<validate_vars, upload_vars, classify_vars, score_vars, call_vars>>

\* test_executor.py line 288: the request's task is cancelled while it waits
\* for the executor (the server shuts down).  CancelledError is a
\* BaseException: it passes the handler of line 344 and that of the route, so
\* nothing more is written and the request gets no answer
CancelRun ==
    /\ in_flight # NoFlight
    /\ route' = Reply(in_flight.name, in_flight.user_id,
                      [kind |-> "none", raised |-> "CancelledError"])
    /\ in_flight' = NoFlight
    /\ UNCHANGED <<test_run, test_failures, analyzer_log, run_vars>>
    /\ UNCHANGED <<validate_vars, upload_vars, classify_vars, score_vars, call_vars>>

\* schema_routes.py lines 537-618.  The handler has no await that suspends it
\* between the lookup of the run and the commit of the analyses (Agent 2 is
\* called synchronously), so it is one step also when it is served while
\* another request waits for the executor.
AnalyzeFailures ==
    /\ \E user_id \in Users :
       LET answer(response) == route' = Reply("analyze_failures", user_id, response)
       IN  IF ~owns_run(user_id, test_run)
           THEN /\ answer(NotFound)
                /\ UNCHANGED <<test_run, test_failures, analyzer_log, in_flight>>
           ELSE /\ in_flight' =
                      IF in_flight = NoFlight THEN NoFlight
                      ELSE [in_flight EXCEPT !.overlapped = TRUE]
                /\ IF test_failures = <<>>
                   THEN /\ answer([kind |-> "no failures"])
                        /\ UNCHANGED <<test_run, test_failures, analyzer_log>>
                   ELSE IF agent2_already_called(test_run)
                   THEN /\ answer([kind |-> "cached",
                                   analyses |-> stored_analyses(test_failures)])
                        /\ UNCHANGED <<test_run, test_failures, analyzer_log>>
                   ELSE \E gemini_key \in GeminiKeys,
                           answers \in [DOMAIN test_failures -> AnalyzerAnswers] :
                           LET a == analyze_failures_with_agent2(
                                        test_run, test_failures, analyzer_log,
                                        gemini_key, answers)
                           IN  IF a.raised
                               THEN /\ answer([kind |-> "500"])
                                    /\ UNCHANGED <<test_run, test_failures, analyzer_log>>
                               ELSE /\ answer([kind |-> "analyzed",
                                               analyses |-> a.analyses])
                                    /\ test_run' = a.test_run
                                    /\ test_failures' = a.test_failures
                                    /\ analyzer_log' = a.analyzer_log
    /\ UNCHANGED run_vars
    /\ UNCHANGED <<validate_vars, upload_vars, classify_vars, score_vars, call_vars>>

\* schema_routes.py lines 716-762 and 783-816: complete_test_flow when the
\* user's plan has a completed run of the last hour
CompleteFlow ==
    /\ \E user_id \in Users, schema_id \in SchemaIds :
          /\ owns_schema(user_id, schema_id)
          /\ test_run.status = "completed"
          /\ test_run.schema_id = schema_id
          /\ test_run.user_id = user_id
          /\ analyze_and_report(user_id, FALSE, test_run, test_failures, analyzer_log)
    /\ UNCHANGED <<in_flight, run_vars>>
    /\ UNCHANGED <<validate_vars, upload_vars, classify_vars, score_vars, call_vars>>

\* schema_routes.py lines 620-714
FinalReport ==
    /\ \E user_id \in Users :
          route' = Reply("get_final_report", user_id,
                         IF ~owns_run(user_id, test_run) THEN NotFound
                         ELSE [kind |-> "report", raised |-> "none",
                               report |-> get_final_report(test_run, test_failures)])
    /\ UNCHANGED <<test_run, test_failures, analyzer_log, in_flight, run_vars>>
    /\ UNCHANGED <<validate_vars, upload_vars, classify_vars, score_vars, call_vars>>

NextFlow ==
    StartRun \/ FinishRun \/ CancelRun \/ AnalyzeFailures \/ CompleteFlow \/ FinalReport

SpecFlow == InitFlow /\ [][NextFlow]_vars

\* C22 as stated: in every stored TestRun row the three counters add up to
\* total_tests (a counter that was never written adds nothing).
C22_CountsSumToTotal ==
    test_run.status # "none" =>
        LET written(counter) == IF counter = NoIdx THEN 0 ELSE counter
        IN  written(test_run.passed_tests) + written(test_run.failed_tests)
               + written(test_run.error_tests) = test_run.total_tests

\* C22, amended: in every stored TestRun row that is COMPLETED the three
\* counters are written and add up to total_tests, the number of results, each
\* result being counted once: PASSED as passed, FAILED as failed, ERROR and
\* TIMEOUT as error.  (A row that is RUNNING or ERROR holds total_tests and no
\* counts.)
C22_CompletedCountsSumToTotal ==
    test_run.status = "completed" =>
        LET count(kinds) ==
                Cardinality({k \in DOMAIN final_results : final_results[k].result \in kinds})
        IN  /\ test_run.passed_tests = count({"passed"})
            /\ test_run.failed_tests = count({"failed"})
            /\ test_run.error_tests = count({"error", "timeout"})
            /\ test_run.total_tests = Len(final_results)
            /\ test_run.passed_tests + test_run.failed_tests + test_run.error_tests
                  = test_run.total_tests

\* two test cases, the first passes and the target answers 500 for the second:
\* passed = 1, failed = 1 and the score is 95
C22_Witness ==
    /\ test_run.status = "completed"
    /\ Len(final_results) = 2
    /\ final_results[1].result = "passed"
    /\ final_results[2].result = "failed" /\ final_results[2].status_code = 500
    /\ test_run.passed_tests = 1 /\ test_run.failed_tests = 1 /\ test_run.error_tests = 0
    /\ test_run.stability_score = 95

\* C23: whatever requests for analysis follow one another on a run
\* (analyze_failures, complete_test_flow), Agent 2 is asked about each
\* TestFailure row at most once and the row's analysis is written at most once;
\* once the run's agent2_called flag is set no request changes a row, and
\* analyze_failures answers with the analyses stored in the rows.
C23_EnrichmentIdempotent ==
    /\ [](\A i \in DOMAIN analyzer_log :
             analyzer_log[i].calls <= 1 /\ analyzer_log[i].writes <= 1)
    /\ [][test_run.agent2_called
             => /\ test_failures' = test_failures
                /\ analyzer_log' = analyzer_log
                /\ test_run'.agent2_called
                /\ (route'.name = "analyze_failures" /\ route'.user_id = test_run.user_id)
                      => /\ route'.response.kind = "cached"
                         /\ route'.response.analyses = stored_analyses(test_failures)]_vars

\* a second request for analysis was answered from the rows analysed by the first
C23_Witness ==
    /\ route.name = "analyze_failures"
    /\ route.response.kind = "cached"
    /\ test_run.agent2_called
    /\ \E i \in DOMAIN analyzer_log : analyzer_log[i].calls = 1
    /\ \A i \in DOMAIN test_failures :
          route.response.analyses[i].root_cause = test_failures[i].root_cause

\* C24: the risk_level stored in a TestFailure row is one of low, medium, high,
\* critical; when Agent 2 answered with another value, a differently cased one
\* or none, the row holds medium.
C24_StoredRiskLevelInEnum ==
    \A i \in DOMAIN test_failures :
        /\ test_failures[i].risk_level # NoText => test_failures[i].risk_level \in RiskLevel
        /\ (analyzer_log[i].answer = "json" /\ analyzer_log[i].risk_level \notin RiskLevel)
              => test_failures[i].risk_level = "medium"

\* C25: complete_test_flow on a completed run answers with the report whatever
\* becomes of the analysis, and the report shows "Not analyzed yet" as the root
\* cause of every TestFailure row for which Agent 2 delivered no analysis.
C25_AnalyzerFailureNeverBlocksReport ==
    (/\ route.name = "complete_test_flow"
     /\ route.response.raised # "not found"
     /\ test_run.status = "completed")
        => /\ route.response.kind = "report"
           /\ \A i \in DOMAIN test_failures :
                 analyzer_log[i].answer # "json"
                    => route.response.report.failures[i].root_cause = "Not analyzed yet"

C30_TestCaseFailuresNeverFailTheRun ==
    (/\ route.name \in {"run_tests", "complete_test_flow"}
     /\ route.response.raised \notin {"not found", "client", "commit", "CancelledError"})
        => /\ test_run.status = "completed"
           /\ Len(final_results) = test_run.total_tests
           /\ \A k \in DOMAIN final_results :
                 final_results[k].result \in {"passed", "failed", "error", "timeout"}

\* C31: after a completed run the store holds one TestFailure row for each
\* result that is not PASSED (FAILED, ERROR or TIMEOUT), in the order of the
\* results, and none for a PASSED result: the number of rows is failed_tests +
\* error_tests.
C31_OneFailureRowPerNonPassedResult ==
    test_run.status = "completed" =>
        LET failing == {k \in DOMAIN final_results : final_results[k].result # "passed"}
            rank(k) == Cardinality({j \in failing : j <= k})
        IN  /\ Len(test_failures) = Cardinality(failing)
            /\ Len(test_failures) = test_run.failed_tests + test_run.error_tests
            /\ \A k \in failing :
                  /\ test_failures[rank(k)].endpoint = final_results[k].test_case.endpoint
                  /\ test_failures[rank(k)].test_type = final_results[k].test_case.test_type
                  /\ test_failures[rank(k)].status_code = final_results[k].status_code
                  /\ test_failures[rank(k)].failure_reason = final_results[k].failure_reason

\* a completed run of two test cases, the first timed out and the target
\* answered 500 for the second: two rows, the timeout's first
C31_Witness ==
    /\ test_run.status = "completed"
    /\ Len(final_results) = 2
    /\ final_results[1].result = "timeout"
    /\ final_results[2].result = "failed"
    /\ Len(test_failures) = 2
    /\ test_failures[1].status_code = NoIdx
    /\ test_failures[2].status_code = 500
    /\ test_run.failed_tests = 1 /\ test_run.error_tests = 1

(***************************************************************************)
(* A run of four test cases under a limit of two (SpecParallel): the       *)
(* executor of SpecRun, constructed as TestExecutor(test_cases,            *)
(* max_concurrent=2) for a plan of four test cases, two on each of two     *)
(* endpoints.                                                              *)
(***************************************************************************)
\* test_executor.py lines 24-28 for that plan and limit
InitParallel ==
    /\ ValidateIdle
    /\ UploadIdle
    /\ CallIdle
    /\ FlowIdle
    /\ ClassifyIdle
    /\ ScoreIdle
    /\ \E first \in RunCases : \E second \in RunCases \ {first} :
          run_cases = <<first, second, first, second>>
    /\ max_concurrent = 2
    /\ session = "none"
    /\ run_pc = "created"
    /\ task_pc = [i \in 1..Len(run_cases) |-> "pending"]
    /\ task_result = [i \in 1..Len(run_cases) |-> NoTaskResult]
    /\ completed = <<>>
    /\ final_results = <<>>
    /\ attempts = [i \in 1..Len(run_cases) |-> 0]
    /\ task_outcome = [i \in 1..Len(run_cases) |-> NoOutcome]

SpecParallel == InitParallel /\ [][NextRun]_vars

\* the tasks that have finished their request
Finished == {completed[k] : k \in DOMAIN completed}

\* C32: with max_concurrent = 2 and four test cases, never more than two
\* requests are in flight, the first two test cases are the first to start,
\* and the third test case has started its request only if one of the first
\* two has finished; the fourth only if two of the first three have.  (That
\* two requests are in flight at once is C32_Witness.)
C32_ParallelUpToTheLimit ==
    (Len(run_cases) = 4 /\ max_concurrent = 2) =>
        /\ Cardinality(InFlight) <= 2
        /\ attempts[3] > 0 =>
              /\ attempts[1] > 0 /\ attempts[2] > 0
              /\ Finished \cap {1, 2} # {}
        /\ attempts[4] > 0 => Cardinality(Finished \cap {1, 2, 3}) >= 2

\* the third test case was started beside one of the first two that is still
\* waiting for its response: two requests in flight, run in parallel
C32_Witness ==
    /\ Len(run_cases) = 4 /\ max_concurrent = 2
    /\ Cardinality(InFlight) = 2
    /\ 3 \in InFlight
    /\ InFlight \cap {1, 2} # {}
    /\ task_pc[4] = "pending"

\* C33: in every stored plan the method of every endpoint and of every test
\* case is one of GET, POST, PUT, DELETE, PATCH, HEAD, OPTIONS in upper case,
\* whatever case Agent 1 wrote it in.
C33_StoredMethodsUpperCase ==
    \A row \in store :
        /\ \A i \in DOMAIN row.normalized_schema :
              row.normalized_schema[i].method \in HTTPMethod
        /\ \A i \in DOMAIN row.test_cases :
              row.test_cases[i].method \in HTTPMethod

\* the failure reason speaks of a server error or of a timeout, in any case
MentionsServerErrorOrTimeout(result) ==
    LET text == lower(ReasonText(result))
    IN  \/ Contains(<<"5xx">>, text)
        \/ Contains(<<"server", "error">>, text)
        \/ Contains(<<"timeout">>, text)

\* C34: a run whose results are all PASSED, or all ERROR with failure reasons
\* that speak of neither a server error nor a timeout, has the score 100: such
\* results add to none of the three counters.
C34_UnmatchedResultsScoreFull ==
    (test_run.status = "completed" /\ test_run.stability_score # NoIdx) =>
        /\ (\A k \in DOMAIN final_results : final_results[k].result = "passed")
              => test_run.stability_score = 100
        /\ (\A k \in DOMAIN final_results :
               /\ final_results[k].result = "error"
               /\ ~MentionsServerErrorOrTimeout(final_results[k]))
              => test_run.stability_score = 100

\* a scored run of two test cases that both failed to connect: two errors,
\* score 100
C34_Witness ==
    /\ test_run.status = "completed"
    /\ Len(final_results) = 2
    /\ \A k \in DOMAIN final_results :
          /\ final_results[k].result = "error"
          /\ final_results[k].failure_reason = <<"Execution", "error:", "Cannot", "connect">>
    /\ test_run.error_tests = 2
    /\ test_run.stability_score = 100

\* C35: every entry of the list a run returns is a result whose status code is
\* None exactly when the result is error or timeout and whose failure reason is
\* None exactly when the result is passed; a test case that got a response is
\* passed or failed, as the classifier said.
C35_ResultFieldsConsistent ==
    run_pc \in {"gathered", "returned"} =>
        \A i \in DOMAIN final_results :
            LET r == final_results[i]
            IN  /\ r.result \in {"passed", "failed", "error", "timeout"}
                /\ (r.status_code = NoIdx) <=> (r.result \in {"error", "timeout"})
                /\ (r.failure_reason = NoReason) <=> (r.result = "passed")
                /\ task_outcome[i].kind = "response" =>
                      /\ r.result \in {"passed", "failed"}
                      /\ r.result = _analyze_response(task_outcome[i].status_code,
                                                      task_outcome[i].body,
                                                      run_cases[i]).result

(***************************************************************************)
(* SpecParallelFair: the run of SpecParallel under the scheduling of the   *)
(* event loop.  A task that can run is run: the block is entered, a task   *)
(* that is first in the semaphore's queue while a slot is free gets the    *)
(* slot, gather returns once every task has finished and the block is      *)
(* left.  Every issued request ends (aiohttp answers, fails or reaches the *)
(* total timeout of line 80).  Nothing obliges anyone to cancel the run.   *)
(***************************************************************************)
SpecParallelFair ==
    /\ SpecParallel
    /\ WF_vars(Enter)
    /\ \A i \in 1..4 : WF_vars(Acquire(i))
    /\ \A i \in 1..4 : WF_vars(Complete(i))
    /\ WF_vars(Gather)
    /\ WF_vars(Exit)

\* C36: unless the run itself is cancelled, every test case that waits for a
\* slot of the semaphore gets one and issues its request, and the run returns
\* a list with one entry per test case, every test case attempted.
C36_RunTerminatesWithAllResults ==
    /\ \A i \in 1..4 :
          (run_pc = "running" /\ task_pc[i] = "pending")
             ~> (task_pc[i] = "inflight" \/ run_pc = "raising")
    /\ <>(\/ run_pc = "raised"
          \/ /\ run_pc = "returned"
             /\ Len(final_results) = Len(run_cases)
             /\ \A i \in Tasks : attempts[i] = 1 /\ task_pc[i] = "done")

\* a run of four test cases under a limit of two has returned its four
\* entries; the fourth test case, which had to wait for a slot, was the first
\* of the second pair to finish
C36_Witness ==
    /\ run_pc = "returned"
    /\ Len(run_cases) = 4 /\ max_concurrent = 2
    /\ Len(final_results) = 4
    /\ \A i \in Tasks : attempts[i] = 1
    /\ \E k \in DOMAIN completed :
          completed[k] = 4 /\ \A j \in 1..k : completed[j] # 3

\* Agent 2 was asked about some row in this step
AnalyzerInvoked ==
    \E i \in DOMAIN analyzer_log' :
        analyzer_log'[i].calls > (IF i \in DOMAIN analyzer_log THEN analyzer_log[i].calls ELSE 0)

\* C37: however the requests for analysis of a run overlap with one another
\* and with the request that runs the tests, Agent 2 is asked at most once
\* about a TestFailure row: the step of a request that asks Agent 2 finds the
\* flag agent2_called unset and the rows it asks about without an analysis, and
\* leaves the flag set, so no other request's look at the flag falls between.
C37_EnrichmentCheckAndSetAtomic ==
    /\ [](\A i \in DOMAIN analyzer_log : analyzer_log[i].calls <= 1)
    /\ [][AnalyzerInvoked =>
             /\ ~test_run.agent2_called
             /\ test_run'.agent2_called
             /\ \A i \in DOMAIN analyzer_log' :
                   (i \in DOMAIN test_failures /\ test_failures[i].root_cause # NoText)
                      => analyzer_log'[i].calls = analyzer_log[i].calls]_vars

\* complete_test_flow was answered with its report after a request for
\* analysis of the same run had been served while it waited for the executor;
\* Agent 2 was asked once about the run's one failure
C37_Witness ==
    /\ route.name = "complete_test_flow"
    /\ route.response.kind = "report"
    /\ route.response.overlapped
    /\ test_run.agent2_called
    /\ Len(analyzer_log) = 1
    /\ analyzer_log[1].calls = 1

(***************************************************************************)
(* SpecUploads: upload requests served concurrently.  upload_schema has    *)
(* one await, the read of the uploaded file (line 125): there the event    *)
(* loop may serve other requests.  From the read on, the parse, the lookup *)
(* by hash, the call of Agent 1, the gate and the commit run without an    *)
(* await, so a request is two steps, Receive and Resume.  The files of the *)
(* requests followed here parse; what becomes of one that does not is in   *)
(* Spec.                                                                   *)
(***************************************************************************)
ParsableFiles == {file \in Files : ParsesToSchema(file)}

\* lines 85-125: the base URL is checked and the handler waits for the file
Receive ==
    /\ \E user_id \in Users, base_url \in BaseUrls, file \in ParsableFiles :
          IF Len(base_url) = 0 \/ IsBlank(base_url) \/ ~HasHttpPrefix(base_url)
          THEN /\ upload' = Answer("400", user_id, <<>>, "", "none")
               /\ UNCHANGED <<store, reading>>
          ELSE /\ BagCardinality(reading) < MaxReading
               /\ reading' = reading (+) SetToBag({[user_id |-> user_id,
                                                    base_url |-> base_url, file |-> file]})
               /\ UNCHANGED <<store, upload>>
    /\ UNCHANGED <<validate_vars, run_vars, classify_vars, score_vars, call_vars, flow_vars>>

\* lines 125-240: the file of a waiting request has been read, in whatever
\* order the reads end
Resume(request) ==
    /\ BagIn(request, reading)
    /\ upload_schema(request.user_id, request.base_url, request.file)
    /\ reading' = reading (-) SetToBag({request})
    /\ UNCHANGED <<validate_vars, run_vars, classify_vars, score_vars, call_vars, flow_vars>>

NextUploads == Receive \/ \E request \in BagToSet(reading) : Resume(request)

SpecUploads == Init /\ [][NextUploads]_vars

InitOwner == InitFlowOf(1)

\* upload_schema (schema_routes.py lines 85-240) for the schema file and base
\* URL of a stored plan
UploadStored ==
    /\ \E user_id \in Users, row \in store :
          upload_schema(user_id, row.base_url, row.schema_hash[1])
    /\ UNCHANGED reading
    /\ UNCHANGED <<validate_vars, run_vars, classify_vars, score_vars, call_vars, flow_vars>>

NextOwner == NextFlow \/ UploadStored

SpecOwner == InitOwner /\ [][NextOwner]_vars

\* C39: an upload is answered with a plan, cached or new, only if that plan is
\* the uploading user's own, also when another user's plan has the same hash,
\* and an upload changes no plan of the store; a run belongs to a user who
\* owns its plan, and a request by any other user for the run, its failures or
\* its report is answered 404 and changes nothing.
C39_PlansAndRunsScopedToOwner ==
    /\ [](upload.status \in {"cached", "processed"} =>
             \E row \in store : /\ row.schema_id = upload.schema_id
                                /\ row.user_id = upload.user_id
                                /\ row.schema_hash = upload.schema_hash)
    /\ [][store \subseteq store']_vars
    /\ [](test_run.status # "none" =>
             \E row \in store : /\ row.schema_id = test_run.schema_id
                                /\ row.user_id = test_run.user_id)
    /\ [][(route' # route /\ route'.user_id # test_run'.user_id) =>
             /\ route'.response = NotFound
             /\ UNCHANGED <<test_run, test_failures, analyzer_log>>]_vars

\* two users have uploaded the same schema and base URL and each got a plan
\* of their own; the second, asking for a run of the first, was answered 404
C39_Witness ==
    /\ \E r1 \in store : \E r2 \in store :
          /\ r1.user_id = "u1" /\ r2.user_id = "u2"
          /\ r1.schema_hash = r2.schema_hash
          /\ r1.schema_id # r2.schema_id
          /\ upload.user_id = "u2" /\ upload.schema_id = r2.schema_id
    /\ upload.status = "cached"
    /\ test_run.status = "completed" /\ test_run.user_id = "u1"
    /\ Len(test_failures) = 1
    /\ route.name = "get_final_report"
    /\ route.user_id = "u2"
    /\ route.response = NotFound

\* C40: the status of a TestRun row moves from RUNNING to COMPLETED or from
\* RUNNING to ERROR and in no other way: when run_test_suite is over, returned
\* or raised, the row is COMPLETED or ERROR and not RUNNING; a COMPLETED or
\* ERROR row keeps its status; and a COMPLETED row has the counts of a result
\* list with one entry per test case.
C40_RunStatusLifecycle ==
    /\ []((test_run.status # "none" /\ in_flight = NoFlight)
             => test_run.status \in {"completed", "error"})
    /\ [][test_run'.status # test_run.status
             => <<test_run.status, test_run'.status>> \in
                   {<<"none", "running">>, <<"running", "completed">>,
                    <<"running", "error">>}]_vars
    /\ [](test_run.status = "completed"
             => /\ Len(final_results) = test_run.total_tests
                /\ test_run.total_tests = Len(run_cases)
                /\ LET counts == count_results(final_results)
                   IN  /\ test_run.passed_tests = counts.passed
                       /\ test_run.failed_tests = counts.failed
                       /\ test_run.error_tests = counts.errors)

====
